---- MODULE Spec2Model ----
(***************************************************************************)
(* CodeWeaver: the patch engine (apply_patch_to_file and the unified-diff  *)
(* generation of the agents), the concurrent review orchestrator           *)
(* (multi_agent_framework_v2) and the apply/reject life cycle of a         *)
(* suggestion.                                                             *)
(*                                                                         *)
(* Text is modelled character by character: a string is a sequence of      *)
(* one-character strings, a file is its content string, a line list is a   *)
(* sequence of strings.                                                    *)
(***************************************************************************)
EXTENDS Integers, Sequences, FiniteSets, TLC

\* ------------------------------------------------------------------------
\* Strings
\* ------------------------------------------------------------------------

NL == "\n"

Digits == <<"0", "1", "2", "3", "4", "5", "6", "7", "8", "9">>

IsDigit(c) == \E d \in 1..10 : Digits[d] = c

DigitVal(c) == (CHOOSE d \in 1..10 : Digits[d] = c) - 1

Min(x, y) == IF x < y THEN x ELSE y

Max(x, y) == IF x > y THEN x ELSE y

\* s[k] of a 1-based string, "" past either end
At(s, k) == IF k >= 1 /\ k <= Len(s) THEN s[k] ELSE ""

\* str.startswith
StartsWith(line, prefix) ==
    /\ Len(line) >= Len(prefix)
    /\ SubSeq(line, 1, Len(prefix)) = prefix

\* PySlice without the clipping of hi to the length: every place past the
\* end gives an empty element
PySlice_NoClip(s, lo, hi) ==
    IF lo >= hi THEN <<>>
    ELSE [k \in 1..(hi - lo) |-> IF lo + k <= Len(s) THEN s[lo + k] ELSE <<>>]

\* Python s[lo:hi] for 0 <= lo: both ends are clipped to the length
PySlice(s, lo, hi) ==
    LET h == Min(hi, Len(s))
    IN  IF lo >= h THEN <<>> ELSE SubSeq(s, lo + 1, h)

\* position of the first newline of s, 0 when it has none
FirstNL(s) ==
    IF \E k \in 1..Len(s) : s[k] = NL
    THEN CHOOSE k \in 1..Len(s) : s[k] = NL /\ \A j \in 1..(k - 1) : s[j] # NL
    ELSE 0

\* str.splitlines(): the lines without their terminators
RECURSIVE SplitLines(_)
SplitLines(s) ==
    IF s = <<>> THEN <<>>
    ELSE LET k == FirstNL(s)
         IN  IF k = 0 THEN <<s>>
             ELSE <<SubSeq(s, 1, k - 1)>> \o SplitLines(SubSeq(s, k + 1, Len(s)))

\* f.readlines() and str.splitlines(keepends=True): the lines with their
\* terminators; only the last line can lack one
RECURSIVE KeepEnds(_)
KeepEnds(s) ==
    IF s = <<>> THEN <<>>
    ELSE LET k == FirstNL(s)
         IN  IF k = 0 THEN <<s>>
             ELSE <<SubSeq(s, 1, k)>> \o KeepEnds(SubSeq(s, k + 1, Len(s)))

\* f.writelines(lines) and ''.join(lines)
RECURSIVE Flatten(_)
Flatten(lines) ==
    IF lines = <<>> THEN <<>> ELSE Head(lines) \o Flatten(Tail(lines))

\* '\n'.join(lines)
RECURSIVE JoinNL(_)
JoinNL(lines) ==
    IF lines = <<>> THEN <<>>
    ELSE IF Len(lines) = 1 THEN Head(lines)
    ELSE Head(lines) \o <<NL>> \o JoinNL(Tail(lines))

\* str(n) for n >= 0
RECURSIVE DecStr(_)
DecStr(n) ==
    IF n < 10 THEN <<Digits[n + 1]>>
    ELSE DecStr(n \div 10) \o <<Digits[(n % 10) + 1]>>

\* int(s) of a non-empty digit string
RECURSIVE DecVal(_)
DecVal(s) ==
    IF Len(s) = 1 THEN DigitVal(s[1])
    ELSE 10 * DecVal(SubSeq(s, 1, Len(s) - 1)) + DigitVal(s[Len(s)])

\* length of the longest run of digits of line that starts at position k
RECURSIVE DigitRun(_, _)
DigitRun(line, k) ==
    IF IsDigit(At(line, k)) THEN 1 + DigitRun(line, k + 1) ELSE 0

\* ------------------------------------------------------------------------
\* Unified-diff generation: difflib.unified_diff as the agents call it
\* (n = 3 lines of context, lineterm = ''), over line lists a and b.
\* Indices are 0-based and ranges half-open, as in difflib.
\* ------------------------------------------------------------------------

\* default of difflib.unified_diff's parameter n; no agent call site passes it
ContextLines == 3

\* length of the longest common run of a[i:ahi] and b[j:bhi]
RECURSIVE MatchLen(_, _, _, _, _, _)
MatchLen(a, b, i, j, ahi, bhi) ==
    IF i < ahi /\ j < bhi /\ a[i + 1] = b[j + 1]
    THEN 1 + MatchLen(a, b, i + 1, j + 1, ahi, bhi)
    ELSE 0

\* SequenceMatcher.find_longest_match without junk: the longest block, of
\* those the one starting earliest in a, of those the one earliest in b
FindLongestMatch(a, b, alo, ahi, blo, bhi) ==
    LET cand == {[i |-> c[1], j |-> c[2],
                  k |-> MatchLen(a, b, c[1], c[2], ahi, bhi)] :
                    c \in (alo..(ahi - 1)) \X (blo..(bhi - 1))}
        better(c, d) ==
            \/ c.k > d.k
            \/ c.k = d.k /\ c.i < d.i
            \/ c.k = d.k /\ c.i = d.i /\ c.j <= d.j
    IN  IF \A c \in cand : c.k = 0
        THEN [i |-> alo, j |-> blo, k |-> 0]
        ELSE CHOOSE c \in cand : \A d \in cand : better(c, d)

\* SequenceMatcher.get_matching_blocks, before the (la, lb, 0) sentinel:
\* the longest match m, then the same to its left and to its right
RECURSIVE MatchingBlocks(_, _, _, _, _, _)
RECURSIVE BlocksAround(_, _, _, _, _, _, _)
MatchingBlocks(a, b, alo, ahi, blo, bhi) ==
    CHOOSE blocks \in {BlocksAround(a, b, alo, ahi, blo, bhi, m) :
                          m \in {FindLongestMatch(a, b, alo, ahi, blo, bhi)}} : TRUE

BlocksAround(a, b, alo, ahi, blo, bhi, m) ==
    IF m.k = 0 THEN <<>>
    ELSE (IF alo < m.i /\ blo < m.j
          THEN MatchingBlocks(a, b, alo, m.i, blo, m.j) ELSE <<>>)
         \o <<m>>
         \o (IF m.i + m.k < ahi /\ m.j + m.k < bhi
             THEN MatchingBlocks(a, b, m.i + m.k, ahi, m.j + m.k, bhi)
             ELSE <<>>)

Opcode(tag, i1, i2, j1, j2) ==
    [tag |-> tag, i1 |-> i1, i2 |-> i2, j1 |-> j1, j2 |-> j2]

\* SequenceMatcher.get_opcodes: the loop over the matching blocks, (i, j)
\* being the place reached in a and b
RECURSIVE OpcodesFrom(_, _, _)
OpcodesFrom(blocks, i, j) ==
    IF blocks = <<>> THEN <<>>
    ELSE LET m == Head(blocks)
             tag == IF i < m.i /\ j < m.j THEN "replace"
                    ELSE IF i < m.i THEN "delete"
                    ELSE IF j < m.j THEN "insert"
                    ELSE ""
         IN  (IF tag # "" THEN <<Opcode(tag, i, m.i, j, m.j)>> ELSE <<>>)
             \o (IF m.k > 0
                 THEN <<Opcode("equal", m.i, m.i + m.k, m.j, m.j + m.k)>>
                 ELSE <<>>)
             \o OpcodesFrom(Tail(blocks), m.i + m.k, m.j + m.k)

GetOpcodes(a, b) ==
    OpcodesFrom(MatchingBlocks(a, b, 0, Len(a), 0, Len(b))
                    \o <<[i |-> Len(a), j |-> Len(b), k |-> 0]>>, 0, 0)

\* get_grouped_opcodes: the loop that cuts the opcodes into groups at every
\* equal range longer than 2n; group is the group being built
RECURSIVE GroupLoop(_, _, _)
GroupLoop(codes, group, n) ==
    IF codes = <<>>
    THEN IF group # <<>> /\ ~(Len(group) = 1 /\ group[1].tag = "equal")
         THEN <<group>> ELSE <<>>
    ELSE LET c == Head(codes)
         IN  IF c.tag = "equal" /\ c.i2 - c.i1 > n + n
             THEN <<Append(group, Opcode(c.tag, c.i1, Min(c.i2, c.i1 + n),
                                         c.j1, Min(c.j2, c.j1 + n)))>>
                  \o GroupLoop(Tail(codes),
                               <<Opcode(c.tag, Max(c.i1, c.i2 - n), c.i2,
                                        Max(c.j1, c.j2 - n), c.j2)>>, n)
             ELSE GroupLoop(Tail(codes), Append(group, c), n)

\* get_grouped_opcodes, the fix-up of a leading equal range: only its last
\* n lines are context
TrimFirst(codes, n) ==
    LET f == codes[1]
    IN  IF f.tag = "equal"
        THEN [codes EXCEPT ![1] = Opcode(f.tag, Max(f.i1, f.i2 - n), f.i2,
                                         Max(f.j1, f.j2 - n), f.j2)]
        ELSE codes

\* and of a trailing one: only its first n lines are
TrimLast(codes, n) ==
    LET l == codes[Len(codes)]
    IN  IF l.tag = "equal"
        THEN [codes EXCEPT ![Len(codes)] =
                  Opcode(l.tag, l.i1, Min(l.i2, l.i1 + n), l.j1, Min(l.j2, l.j1 + n))]
        ELSE codes

GetGroupedOpcodes(a, b, n) ==
    CHOOSE groups \in
        {GroupLoop(codes, <<>>, n) :
            codes \in {TrimLast(first, n) :
                first \in {TrimFirst(codes0, n) :
                    codes0 \in {IF raw = <<>> THEN <<Opcode("equal", 0, 1, 0, 1)>>
                                ELSE raw : raw \in {GetOpcodes(a, b)}}}}} : TRUE

\* difflib._format_range_unified
FormatRangeUnified(start, stop) ==
    LET length == stop - start
    IN  IF length = 1 THEN DecStr(start + 1)
        ELSE DecStr(IF length = 0 THEN start ELSE start + 1)
             \o <<",">> \o DecStr(length)

\* prefix + line for every line of lines
Prefixed(prefix, lines) == [k \in 1..Len(lines) |-> <<prefix>> \o lines[k]]

\* the body lines unified_diff yields for the opcodes of one group
RECURSIVE GroupBody(_, _, _)
GroupBody(a, b, group) ==
    IF group = <<>> THEN <<>>
    ELSE LET c == Head(group)
         IN  (IF c.tag = "equal" THEN Prefixed(" ", PySlice(a, c.i1, c.i2))
              ELSE (IF c.tag \in {"replace", "delete"}
                    THEN Prefixed("-", PySlice(a, c.i1, c.i2)) ELSE <<>>)
                   \o (IF c.tag \in {"replace", "insert"}
                       THEN Prefixed("+", PySlice(b, c.j1, c.j2)) ELSE <<>>))
             \o GroupBody(a, b, Tail(group))

\* the hunk header and body of every group
RECURSIVE GroupsText(_, _, _)
GroupsText(a, b, groups) ==
    IF groups = <<>> THEN <<>>
    ELSE LET g == Head(groups)
             first == g[1]
             last == g[Len(g)]
         IN  << <<"@", "@", " ", "-">> \o FormatRangeUnified(first.i1, last.i2)
                \o <<" ", "+">> \o FormatRangeUnified(first.j1, last.j2)
                \o <<" ", "@", "@">> >>
             \o GroupBody(a, b, g)
             \o GroupsText(a, b, Tail(groups))

\* list(difflib.unified_diff(a, b, fromfile, tofile, lineterm='')): the two
\* file headers are yielded with the first group only
UnifiedDiff(a, b, fromfile, tofile) ==
    CHOOSE diff \in
        {IF groups = <<>> THEN <<>>
         ELSE << <<"-", "-", "-", " ">> \o fromfile,
                 <<"+", "+", "+", " ">> \o tofile >>
              \o GroupsText(a, b, groups) :
            groups \in {GetGroupedOpcodes(a, b, ContextLines)}} : TRUE

\* RefactoringAgent._generate_patch from the new file text on: both texts
\* are split with their line ends kept, the diff lines are joined with '\n'
\* and a final '\n' is added
GeneratePatch(file_text, new_file_text, rel_path) ==
    CHOOSE patch \in
        {JoinNL(UnifiedDiff(t[1], t[2], <<"a", "/">> \o rel_path,
                            <<"b", "/">> \o rel_path)) \o <<NL>> :
            t \in {<<KeepEnds(file_text), KeepEnds(new_file_text)>>}} : TRUE

\* ------------------------------------------------------------------------
\* apply_patch_to_file: the pure part (target discovery and hunk replay)
\* ------------------------------------------------------------------------

HeaderMinus == <<"-", "-", "-", " ">>

HeaderPlus == <<"+", "+", "+", " ">>

HeaderPlusB == <<"+", "+", "+", " ", "b", "/">>

HunkMark == <<"@", "@">>

\* the value standing for Python's None
None == <<"None">>

\* the loop that looks for the target file: the first line starting with
\* '+++ ' decides, with 'b/' stripped when it is there; None without one
RECURSIVE TargetFile(_)
TargetFile(lines) ==
    IF lines = <<>> THEN None
    ELSE LET line == Head(lines)
         IN  IF StartsWith(line, HeaderPlus)
             THEN IF StartsWith(line, HeaderPlusB)
                  THEN SubSeq(line, 7, Len(line))
                  ELSE SubSeq(line, 5, Len(line))
             ELSE TargetFile(Tail(lines))

\* re.match(r'^@@ -(\d+),?(\d*) \+(\d+),?(\d*) @@', line): the text of
\* group 1 when the line matches, None when it does not
HunkHeaderMatch(line) ==
    LET a == 5
        n1 == DigitRun(line, a)
        b == a + n1
        c == IF At(line, b) = "," THEN b + 1 ELSE b
        d == c + DigitRun(line, c)
        e == d + 2
        n3 == DigitRun(line, e)
        f == e + n3
        g == IF At(line, f) = "," THEN f + 1 ELSE f
        h == g + DigitRun(line, g)
    IN  IF /\ StartsWith(line, <<"@", "@", " ", "-">>)
           /\ n1 > 0
           /\ At(line, d) = " " /\ At(line, d + 1) = "+"
           /\ n3 > 0
           /\ At(line, h) = " " /\ At(line, h + 1) = "@" /\ At(line, h + 2) = "@"
        THEN SubSeq(line, a, b - 1)
        ELSE None

\* the start the code falls back to when the header does not match
FallbackStart == 1

\* OrigStart falling back to the second line: the fallback taken for the
\* 0-based index, not for the 1-based line number
OrigStart_FallbackIndex(line) ==
    LET m == HunkHeaderMatch(line)
    IN  IF m # None THEN DecVal(m) ELSE FallbackStart + 1

\* OrigStart taking group 3 of the match, the target start, for group 1
OrigStart_TargetStart(line) ==
    LET m == HunkHeaderMatch(line)
        plus == CHOOSE i \in 5..Len(line) :
                    line[i] = "+" /\ \A k \in 5..(i - 1) : line[k] # "+"
    IN  IF m # None
        THEN DecVal(SubSeq(line, plus + 1, plus + DigitRun(line, plus + 1)))
        ELSE FallbackStart

\* orig_start of a line starting with '@@'
OrigStart(line) ==
    LET m == HunkHeaderMatch(line)
    IN  IF m # None THEN DecVal(m) ELSE FallbackStart

\* one body line of a hunk: what it appends to new_lines
HunkLineOut(hunk_line) ==
    IF StartsWith(hunk_line, <<" ">>) \/ StartsWith(hunk_line, <<"+">>)
    THEN << SubSeq(hunk_line, 2, Len(hunk_line)) \o <<NL>> >>
    ELSE <<>>

\* HunkLineAdvance with the elif branch of '-' missing: a removed line is
\* skipped in the patch but not in the original
HunkLineAdvance_DeleteStays(hunk_line) ==
    IF StartsWith(hunk_line, <<" ">>) THEN 1 ELSE 0

\* one body line of a hunk: how far it moves pointer
HunkLineAdvance(hunk_line) ==
    IF StartsWith(hunk_line, <<" ">>) \/ StartsWith(hunk_line, <<"-">>)
    THEN 1 ELSE 0

\* SeekHunk without its test: pointer is set to the start of the hunk
\* wherever it stands (the slice is empty when the start lies behind it)
SeekHunk_Unguarded(st, original_lines, orig_index) ==
    [pointer |-> orig_index,
     new_lines |-> st.new_lines
         \o PySlice(original_lines, st.pointer, orig_index)]

\* at a hunk header: the unchanged lines from pointer up to the start of
\* the hunk are copied and pointer moves there, only when the start lies
\* ahead of pointer
SeekHunk(st, original_lines, orig_index) ==
    IF st.pointer < orig_index
    THEN [pointer |-> orig_index,
          new_lines |-> st.new_lines
              \o PySlice(original_lines, st.pointer, orig_index)]
    ELSE st

\* the outer while loop from index i (1-based here) with the inner loop over
\* the body of a hunk; st = [pointer, new_lines]
RECURSIVE ReplayLoop(_, _, _, _)
RECURSIVE HunkLoop(_, _, _, _)
ReplayLoop(lines, original_lines, i, st) ==
    IF i > Len(lines) THEN st
    ELSE LET line == lines[i]
         IN  IF StartsWith(line, HeaderMinus) \/ StartsWith(line, HeaderPlus)
             THEN ReplayLoop(lines, original_lines, i + 1, st)
             ELSE IF StartsWith(line, HunkMark)
             THEN LET orig_index == OrigStart(line) - 1
                      st1 == SeekHunk(st, original_lines, orig_index)
                  IN  HunkLoop(lines, original_lines, i + 1, st1)
             ELSE ReplayLoop(lines, original_lines, i + 1, st)

HunkLoop(lines, original_lines, i, st) ==
    IF i <= Len(lines) /\ ~StartsWith(lines[i], HunkMark)
    THEN HunkLoop(lines, original_lines, i + 1,
                  [pointer |-> st.pointer + HunkLineAdvance(lines[i]),
                   new_lines |-> st.new_lines \o HunkLineOut(lines[i])])
    ELSE ReplayLoop(lines, original_lines, i, st)

\* Replay without the copy of the remaining lines after the last hunk
Replay_NoTail(lines, original_lines) ==
    ReplayLoop(lines, original_lines, 1, [pointer |-> 0, new_lines |-> <<>>]).new_lines

\* new_lines as it is handed to writelines: the replay of every hunk, then
\* the original lines from pointer on
Replay(lines, original_lines) ==
    LET st == ReplayLoop(lines, original_lines, 1,
                         [pointer |-> 0, new_lines |-> <<>>])
    IN  IF st.pointer < Len(original_lines)
        THEN st.new_lines \o PySlice(original_lines, st.pointer, Len(original_lines))
        ELSE st.new_lines

\* ------------------------------------------------------------------------
\* State
\* ------------------------------------------------------------------------

VARIABLES
    files,      \* the files under repo_path: path -> content, or NoFile
    db,         \* the database as committed: the review sessions and the
                \* suggestions, each a list of rows, a row's id its position
    req,        \* per worker: the request it serves and how far it has got
    budget,     \* how many more requests may arrive
    doc,        \* what the patch under test was built from (never read by the code)
    run         \* the run_review call of the concurrent orchestrator

vars == <<files, db, req, budget, doc, run>>

\* how many workers serve requests at once
NProcs == 2

Procs == 1..NProcs

F == <<"f">>

G == <<"g">>

\* the files a repository holds in this model
Paths == {F, G}

\* the content of a path that is not there
NoFile == <<"NoFile">>

\* the database before any review
EmptyDb == [sessions |-> <<>>, suggestions |-> <<>>]

\* no run_review call has been made
NoRun == [pc |-> "none"]

FileAt(fs, path) == IF path \in DOMAIN fs THEN fs[path] ELSE NoFile

\* a worker with no request: pc is where the worker stands, op and sid the
\* request, no its number, seen the status it loaded, patch to new_lines the
\* locals of apply_patch_to_file, ret and why its result, answer what the
\* caller got, before the files at the call, calls the calls of
\* apply_patch_to_file, pointer the cursor into original_lines when the
\* replay ended
Idle ==
    [pc |-> "idle", op |-> "none", sid |-> 0, seen |-> "none", patch |-> <<>>,
     file_path |-> None, original_lines |-> <<>>, new_lines |-> <<>>,
     ret |-> "none", why |-> "none", answer |-> "none", before |-> <<>>,
     calls |-> 0, no |-> 0, pointer |-> 0]

\* a call apply_patch_to_file(patch, repo_path) about to start
EngineCall(r, patch) ==
    [r EXCEPT !.pc = "engine", !.patch = patch, !.calls = r.calls + 1]

\* ------------------------------------------------------------------------
\* apply_patch_to_file: the steps that touch the file system
\* ------------------------------------------------------------------------

EngineFail(r, fs, why) ==
    [r EXCEPT !.pc = "finish", !.ret = "false", !.why = why, !.before = fs]

\* from the call to the end of the hunk replay: the early returns (empty
\* patch, no '+++ ' line, file not found), else the file is read and
\* new_lines computed
EngineRead(p) ==
    /\ req[p].pc = "engine"
    /\ LET lines == SplitLines(req[p].patch)
           target_file == TargetFile(lines)
       IN  req' = [req EXCEPT ![p] =
               IF lines = <<>> THEN EngineFail(@, files, "empty")
               ELSE IF target_file = None THEN EngineFail(@, files, "no_target")
               ELSE IF FileAt(files, target_file) = NoFile
               THEN EngineFail(@, files, "not_found")
               ELSE [@ EXCEPT !.pc = "write",
                              !.file_path = target_file,
                              !.before = files,
                              !.original_lines = KeepEnds(files[target_file]),
                              !.pointer =
                                  ReplayLoop(lines, KeepEnds(files[target_file]), 1,
                                      [pointer |-> 0, new_lines |-> <<>>]).pointer,
                              !.new_lines =
                                  Replay(lines, KeepEnds(files[target_file]))]]
    /\ UNCHANGED <<files, db, budget, doc, run>>

\* the file is there but reading it raises (except Exception: return False)
EngineReadFault(p) ==
    /\ req[p].pc = "engine"
    /\ LET target_file == TargetFile(SplitLines(req[p].patch))
       IN  /\ FileAt(files, target_file) # NoFile
           /\ req' = [req EXCEPT ![p] = EngineFail(@, files, "read_error")]
    /\ UNCHANGED <<files, db, budget, doc, run>>

\* open(file_path, 'w') and f.writelines(new_lines) succeed
EngineWrite(p) ==
    /\ req[p].pc = "write"
    /\ files' = [files EXCEPT ![req[p].file_path] = Flatten(req[p].new_lines)]
    /\ req' = [req EXCEPT ![p].pc = "finish", ![p].ret = "true"]
    /\ UNCHANGED <<db, budget, doc, run>>

\* what the file holds when writing raises: open(file_path, 'w') failed and
\* nothing changed, or it had truncated the file and only the first k lines
\* got written
WriteFaultOutcomes(r, fs) ==
    {fs} \cup {[fs EXCEPT ![r.file_path] = Flatten(SubSeq(r.new_lines, 1, k))] :
                  k \in 0..Max(0, Len(r.new_lines) - 1)}

\* writing raises (except Exception: return False)
EngineWriteFault(p) ==
    /\ req[p].pc = "write"
    /\ files' \in WriteFaultOutcomes(req[p], files)
    /\ req' = [req EXCEPT ![p].pc = "finish", ![p].ret = "false",
                          ![p].why = "write_error"]
    /\ UNCHANGED <<db, budget, doc, run>>

\* ------------------------------------------------------------------------
\* Patches under test: a diff document is a list of hunks, each a source
\* start and a list of body lines, rendered to diff text as `diff -u` does
\* ------------------------------------------------------------------------

\* the most hunks of a document under test
MaxHunks == 2

\* the most body lines of a document under test, over all its hunks
MaxOps == 4

\* the file of the multi-hunk example: lines a, b, c, d, e
ExampleLines == << <<"a">>, <<"b">>, <<"c">>, <<"d">>, <<"e">> >>

\* the texts the hunks under test insert: B by the first hunk, D2 by the next
InsertTexts == << <<"B">>, <<"D", "2">> >>

\* the text of the lines, each terminated
RECURSIVE Terminated(_)
Terminated(texts) ==
    IF texts = <<>> THEN <<>>
    ELSE Head(texts) \o <<NL>> \o Terminated(Tail(texts))

\* the same without the last terminator
Unterminated(texts) ==
    LET s == Terminated(texts) IN SubSeq(s, 1, Len(s) - 1)

Tags == {" ", "-", "+"}

\* how many source lines the body lines tagged tags consume
RECURSIVE Consumed(_)
Consumed(tags) ==
    IF tags = <<>> THEN 0
    ELSE (IF Head(tags) = "+" THEN 0 ELSE 1) + Consumed(Tail(tags))

\* how many lines they produce
RECURSIVE Emitted(_)
Emitted(tags) ==
    IF tags = <<>> THEN 0
    ELSE (IF Head(tags) = "-" THEN 0 ELSE 1) + Emitted(Tail(tags))

TagSeqs(maxLen) == UNION {[1..k -> Tags] : k \in 1..maxLen}

\* the hunk lists of at most hunksLeft hunks and opsLeft body lines whose
\* hunks lie in ascending order, without overlap, within a file of n lines,
\* the first starting at or after 0-based line cur
RECURSIVE AscendingHunks(_, _, _, _)
AscendingHunks(n, cur, opsLeft, hunksLeft) ==
    {<<>>} \cup
    (IF hunksLeft = 0 \/ opsLeft = 0 THEN {}
     ELSE UNION {
            {<<[start |-> h[1], tags |-> h[2]]>> \o rest :
                rest \in AscendingHunks(n, h[1] - 1 + Consumed(h[2]),
                                        opsLeft - Len(h[2]), hunksLeft - 1)} :
            h \in {x \in ((cur + 1)..(n + 1)) \X TagSeqs(opsLeft) :
                       x[1] - 1 + Consumed(x[2]) <= n}})

\* the body lines of the k-th hunk, whose source lines are those of texts
\* from 0-based line q on: context and deleted lines carry the source text
RECURSIVE BodyLines(_, _, _, _)
BodyLines(tags, texts, q, k) ==
    IF tags = <<>> THEN <<>>
    ELSE LET t == Head(tags)
             payload == IF t = "+" THEN InsertTexts[((k - 1) % Len(InsertTexts)) + 1]
                        ELSE IF q < Len(texts) THEN texts[q + 1]
                        ELSE <<"z">>
         IN  << <<t>> \o payload >>
             \o BodyLines(Tail(tags), texts, IF t = "+" THEN q ELSE q + 1, k)

\* '@@ -S,C +S2,C2 @@'
HunkHeader(s, c, s2, c2) ==
    <<"@", "@", " ", "-">> \o DecStr(s) \o <<",">> \o DecStr(c)
    \o <<" ", "+">> \o DecStr(s2) \o <<",">> \o DecStr(c2) \o <<" ", "@", "@">>

\* hunk headers that do not match the header grammar
MalformedHeaders ==
    << <<"@", "@", " ", "g", "a", "r", "b", "a", "g", "e", " ", "@", "@">>,
       <<"@", "@">>,
       <<"@", "@", " ", "-", "3", " ", "@", "@">> >>

\* every hunk with a well-formed header
WellFormed(hunks) == [k \in 1..Len(hunks) |-> 0]

\* the lines of the hunks from the k-th on; shift is how much longer the
\* target has become than the source so far; the header of a hunk of style
\* v > 0 is MalformedHeaders[v]
RECURSIVE HunksText(_, _, _, _, _)
HunksText(hunks, styles, texts, k, shift) ==
    IF k > Len(hunks) THEN <<>>
    ELSE LET h == hunks[k]
         IN  <<IF styles[k] = 0
               THEN HunkHeader(h.start, Consumed(h.tags),
                               h.start + shift, Emitted(h.tags))
               ELSE MalformedHeaders[styles[k]]>>
             \o BodyLines(h.tags, texts, h.start - 1, k)
             \o HunksText(hunks, styles, texts, k + 1,
                          shift + Emitted(h.tags) - Consumed(h.tags))

FileHeader(path) ==
    << HeaderMinus \o <<"a", "/">> \o path, HeaderPlus \o <<"b", "/">> \o path >>

\* the diff text of hunks against the file path whose line texts are texts
DiffText(path, hunks, texts) ==
    JoinNL(FileHeader(path) \o HunksText(hunks, WellFormed(hunks), texts, 1, 0))
    \o <<NL>>

\* ------------------------------------------------------------------------
\* Multi-hunk application: one call of apply_patch_to_file for a diff of
\* ascending hunks against the example file
\* ------------------------------------------------------------------------

Direct(patch) == EngineCall([Idle EXCEPT !.op = "direct"], patch)

InitHunks ==
    \E orig \in {Terminated(ExampleLines), Unterminated(ExampleLines)},
       hunks \in AscendingHunks(Len(ExampleLines), 0, MaxOps, MaxHunks) :
        /\ files = [p \in Paths |-> IF p = F THEN orig ELSE NoFile]
        /\ db = EmptyDb
        /\ req = [p \in Procs |->
                     IF p = 1 THEN Direct(DiffText(F, hunks, ExampleLines))
                     ELSE Idle]
        /\ budget = 0
        /\ run = NoRun
        /\ doc = [kind |-> "hunks", orig |-> orig, hunks |-> hunks]

\* a call of apply_patch_to_file in an environment without I/O faults
NextEngine ==
    \/ \E p \in Procs : EngineRead(p)
    \/ \E p \in Procs : EngineWrite(p)

SpecHunks == InitHunks /\ [][NextEngine]_vars

\* the lines the body of the k-th hunk produces: every context and every
\* inserted line, as a terminated line
RECURSIVE Produced(_)
Produced(body) ==
    IF body = <<>> THEN <<>>
    ELSE (IF Head(body)[1] = "-" THEN <<>>
          ELSE << Tail(Head(body)) \o <<NL>> >>)
         \o Produced(Tail(body))

\* what applying ascending hunks to the lines orig is to give, from the
\* k-th hunk on, cur being the 0-based source line the previous hunk ended
\* at: the lines up to the hunk, what the hunk produces, and so on; after
\* the last hunk the rest of orig
RECURSIVE Expected(_, _, _, _, _)
Expected(orig, hunks, texts, k, cur) ==
    IF k > Len(hunks) THEN SubSeq(orig, cur + 1, Len(orig))
    ELSE LET h == hunks[k]
         IN  SubSeq(orig, cur + 1, h.start - 1)
             \o Produced(BodyLines(h.tags, texts, h.start - 1, k))
             \o Expected(orig, hunks, texts, k + 1, h.start - 1 + Consumed(h.tags))

\* C7: once apply_patch_to_file has succeeded on a diff of ascending,
\* non-overlapping hunks with well-formed headers, the file holds the
\* original lines before the first hunk, then for each hunk the lines its
\* body produces, the original lines between two hunks in between, and the
\* original lines after the last hunk.
MultiHunkOutput ==
    \A p \in Procs :
        (doc.kind = "hunks" /\ req[p].ret = "true")
            => files[F] = Flatten(Expected(KeepEnds(doc.orig), doc.hunks,
                                           ExampleLines, 1, 0))

\* the example: [a,b,c,d,e], hunk 1 at line 2 deleting b and
\* inserting B, hunk 2 at line 4 with context d and inserting D2, has been
\* applied and the file is [a,B,c,d,D2,e]
MultiHunkExample ==
    /\ doc.kind = "hunks"
    /\ doc.orig = Terminated(ExampleLines)
    /\ doc.hunks = << [start |-> 2, tags |-> <<"-", "+">>],
                      [start |-> 4, tags |-> <<" ", "+">>] >>
    /\ req[1].ret = "true"
    /\ files[F] = Terminated(<< <<"a">>, <<"B">>, <<"c">>, <<"d">>,
                               <<"D", "2">>, <<"e">> >>)

\* ------------------------------------------------------------------------
\* Round trip: a file O, a patch generated from O and M, one call of
\* apply_patch_to_file
\* ------------------------------------------------------------------------

\* the most lines of the short files of the round trip
MaxLen == 3

\* the most lines edited in the long file of the round trip
MaxEdits == 2

\* the line texts of the short files
ShortTexts == { <<"a">>, <<"b">> }

\* a file long enough for a diff of two hunks (more than 2 * ContextLines
\* unchanged lines between two edits)
LongLines == ExampleLines \o ExampleLines

\* the contents of the line lists texts: every line terminated, or all but
\* the last
Contents(texts) ==
    IF texts = <<>> THEN {<<>>} ELSE {Terminated(texts), Unterminated(texts)}

ShortFiles ==
    UNION {Contents(texts) :
              texts \in UNION {[1..k -> ShortTexts] : k \in 0..MaxLen}}

\* what an edit makes of the line at one place: the line removed, replaced
\* by x (keeping its terminator), or preceded by a new line x
Edited(line, kind) ==
    IF kind = "remove" THEN <<>>
    ELSE IF kind = "replace"
    THEN IF line[Len(line)] = NL THEN <<"x", NL>> ELSE <<"x">>
    ELSE <<"x", NL>> \o line

\* the content of lines with the edits e (place -> kind) made
RECURSIVE EditAll(_, _, _)
EditAll(lines, e, k) ==
    IF k > Len(lines) THEN <<>>
    ELSE (IF k \in DOMAIN e THEN Edited(lines[k], e[k]) ELSE lines[k])
         \o EditAll(lines, e, k + 1)

\* the pairs <<O, M>> of the long file and what at most MaxEdits edits of
\* whole lines make of it
LongPairs ==
    UNION { { <<o, EditAll(KeepEnds(o), e, 1)>> :
                e \in UNION {[S -> {"remove", "replace", "insert"}] :
                                S \in {T \in SUBSET (1..Len(LongLines)) :
                                          Cardinality(T) <= MaxEdits}} } :
            o \in Contents(LongLines) }

RoundTripPairs == (ShortFiles \X ShortFiles) \cup LongPairs

InitRoundTrip ==
    \E pair \in RoundTripPairs :
        /\ files = [p \in Paths |-> IF p = F THEN pair[1] ELSE NoFile]
        /\ db = EmptyDb
        /\ req = [p \in Procs |->
                     IF p = 1 THEN Direct(GeneratePatch(pair[1], pair[2], F))
                     ELSE Idle]
        /\ budget = 0
        /\ run = NoRun
        /\ doc = [kind |-> "roundtrip", orig |-> pair[1], want |-> pair[2]]

SpecRoundTrip == InitRoundTrip /\ [][NextEngine]_vars

\* C1: for every original O (its last line terminated or not) and every M
\* made from O by adding, removing or replacing whole lines, applying the
\* generated diff of (O, M) to a file holding O leaves the file holding
\* exactly M, line terminators included.
RoundTrip ==
    \A p \in Procs :
        (doc.kind = "roundtrip" /\ req[p].pc = "finish") => files[F] = doc.want

\* the same for files in which every line is terminated
RoundTripTerminated ==
    \A p \in Procs :
        (/\ doc.kind = "roundtrip" /\ req[p].pc = "finish"
         /\ (doc.orig = <<>> \/ doc.orig[Len(doc.orig)] = NL)
         /\ (doc.want = <<>> \/ doc.want[Len(doc.want)] = NL))
            => files[F] = doc.want

\* ------------------------------------------------------------------------
\* Malformed hunk headers: the diffs of ascending hunks in which one hunk
\* has a header that does not match the grammar
\* ------------------------------------------------------------------------

\* the style lists of n hunks with exactly one malformed header
OneMalformed(n) ==
    {[k \in 1..n |-> IF k = j THEN v ELSE 0] :
        j \in 1..n, v \in 1..Len(MalformedHeaders)}

InitMalformed ==
    \E orig \in Contents(ExampleLines),
       hunks \in AscendingHunks(Len(ExampleLines), 0, MaxOps - 2, MaxHunks) :
        \E styles \in OneMalformed(Len(hunks)) :
            /\ files = [p \in Paths |-> IF p = F THEN orig ELSE NoFile]
            /\ db = EmptyDb
            /\ req = [p \in Procs |->
                         IF p = 1
                         THEN Direct(JoinNL(FileHeader(F)
                                  \o HunksText(hunks, styles, ExampleLines, 1, 0))
                                  \o <<NL>>)
                         ELSE Idle]
            /\ budget = 0
            /\ run = NoRun
            /\ doc = [kind |-> "malformed", orig |-> orig, hunks |-> hunks,
                      styles |-> styles]

SpecMalformed == InitMalformed /\ [][NextEngine]_vars

\* a line that starts with '@@' and does not match the header grammar
IsMalformed(line) == StartsWith(line, HunkMark) /\ HunkHeaderMatch(line) = None

\* C10: for every line of the diff that starts with '@@' and does not match
\* the header grammar, wherever it stands, apply_patch_to_file completes and
\* its output is the output for the same diff with that line replaced by a
\* well-formed header whose source start is 1.
MalformedHeaderFallback ==
    \A p \in Procs :
        LET lines == SplitLines(req[p].patch)
        IN  /\ req[p].ret \in {"none", "true", "false"}
            /\ (req[p].pc = "write" \/ req[p].ret = "true") =>
                  \A k \in 1..Len(lines) :
                      IsMalformed(lines[k]) =>
                          req[p].new_lines =
                              Replay([lines EXCEPT ![k] = HunkHeader(1, 1, 1, 1)],
                                     req[p].original_lines)

\* a diff whose second hunk has a malformed header has been applied and has
\* changed the file
MalformedSecondHunkApplied ==
    /\ doc.kind = "malformed"
    /\ Len(doc.hunks) = 2
    /\ doc.styles[2] > 0
    /\ req[1].ret = "true"
    /\ files[F] # doc.orig

\* ------------------------------------------------------------------------
\* Diff documents of every layout, in an environment where reading and
\* writing may fail: one call of apply_patch_to_file
\* ------------------------------------------------------------------------

\* the lines of the second file of the repository: p, q, r
OtherLines == << <<"p">>, <<"q">>, <<"r">> >>

\* the layouts of the documents under test: the headers of F and hunks; the
\* same with the prefix b/ left out; hunks without any header; the empty
\* text; the headers of G and hunks; the headers and hunks of F followed by
\* the headers and hunks of G
DocLayouts == {"plain", "bare", "none", "empty", "other", "two"}

\* the hunk lists of a document of the layout: against F, and against G
DocHunks(layout) ==
    IF layout = "empty" THEN {<< <<>>, <<>> >>}
    ELSE IF layout = "two"
    THEN (AscendingHunks(Len(ExampleLines), 0, MaxOps - 2, 1) \ {<<>>})
         \X (AscendingHunks(Len(OtherLines), 0, MaxOps - 2, 1) \ {<<>>})
    ELSE IF layout = "other"
    THEN {<<>>} \X AscendingHunks(Len(OtherLines), 0, MaxOps - 2, MaxHunks)
    ELSE AscendingHunks(Len(ExampleLines), 0, MaxOps - 2, MaxHunks) \X {<<>>}

\* the lines of the hunks of a document against the file of line texts texts
DocBody(hunks, texts) == HunksText(hunks, WellFormed(hunks), texts, 1, 0)

\* the diff text of the document
DocText(layout, hunks) ==
    IF layout = "empty" THEN <<>>
    ELSE JoinNL(
           IF layout = "plain" THEN FileHeader(F) \o DocBody(hunks[1], ExampleLines)
           ELSE IF layout = "bare"
           THEN <<HeaderMinus \o F, HeaderPlus \o F>> \o DocBody(hunks[1], ExampleLines)
           ELSE IF layout = "none" THEN DocBody(hunks[1], ExampleLines)
           ELSE IF layout = "other" THEN FileHeader(G) \o DocBody(hunks[2], OtherLines)
           ELSE FileHeader(F) \o DocBody(hunks[1], ExampleLines)
                \o FileHeader(G) \o DocBody(hunks[2], OtherLines))
         \o <<NL>>

InitDocs ==
    \E layout \in DocLayouts, orig \in Contents(ExampleLines),
       other \in {NoFile, Terminated(OtherLines)} :
        \E hunks \in DocHunks(layout) :
            /\ files = [p \in Paths |-> IF p = F THEN orig ELSE other]
            /\ db = EmptyDb
            /\ req = [p \in Procs |->
                         IF p = 1 THEN Direct(DocText(layout, hunks)) ELSE Idle]
            /\ budget = 0
            /\ run = NoRun
            /\ doc = [kind |-> "docs", layout |-> layout, hunks |-> hunks]

\* a call of apply_patch_to_file in an environment where reading the target
\* and writing it may raise
NextEngineFaulty ==
    \/ \E p \in Procs : EngineRead(p)
    \/ \E p \in Procs : EngineReadFault(p)
    \/ \E p \in Procs : EngineWrite(p)
    \/ \E p \in Procs : EngineWriteFault(p)

SpecDocs == InitDocs /\ [][NextEngineFaulty]_vars

\* C8: whenever apply_patch_to_file has returned False, for whichever
\* reason (empty patch text, no '+++ ' line, target missing or unreadable,
\* failure while writing), every file under repo_path holds exactly what it
\* held before the call.
NoPartialOutput ==
    \A p \in Procs : req[p].ret = "false" => files = req[p].before

\* the same for the failures that happen before the target is opened for
\* writing
NoOutputOnEarlyFailure ==
    \A p \in Procs :
        (req[p].ret = "false" /\ req[p].why # "write_error")
            => files = req[p].before

\* the paths the '+++ ' lines of the patch text name
RECURSIVE TargetsNamed(_)
TargetsNamed(lines) ==
    IF lines = <<>> THEN {}
    ELSE (IF StartsWith(Head(lines), HeaderPlus)
          THEN {TargetFile(<<Head(lines)>>)} ELSE {})
         \cup TargetsNamed(Tail(lines))

\* C9: a patch text with '+++ ' header lines for two different paths, each
\* followed by hunks, is rejected: apply_patch_to_file reports failure and
\* modifies no file; the hunks of the second file are not replayed against
\* the first.
MultiFileRejected ==
    \A p \in Procs :
        (/\ doc.kind = "docs" /\ doc.layout = "two"
         /\ Cardinality(TargetsNamed(SplitLines(req[p].patch))) > 1
         /\ req[p].pc = "finish")
            => (req[p].ret = "false" /\ files = req[p].before)

\* ------------------------------------------------------------------------
\* The life of a suggestion: the apply and reject commands of the CLI and
\* the /apply-patch endpoint, served by workers that share the database and
\* the files
\* ------------------------------------------------------------------------

\* how many suggestions the review left in the database
MaxSuggestions == 1

\* how many requests arrive in all
MaxRequests == 2

\* the lines of the file the suggestions are about: a, b
ReviewedLines == << <<"a">>, <<"b">> >>

\* the patches of the suggestions: none; line 1 replaced; a patch for a file
\* that is not there
SuggestedPatches ==
    { <<>>,
      DiffText(F, << [start |-> 1, tags |-> <<"-", "+">>] >>, ReviewedLines),
      DiffText(G, << [start |-> 1, tags |-> <<"-">>] >>, ReviewedLines) }

\* Suggestion(session_id, agent, message, patch, file_path, status)
SuggestionRow(session_id, agent, message, patch, file_path, status) ==
    [session_id |-> session_id, agent |-> agent, message |-> message,
     patch |-> patch, file_path |-> file_path, status |-> status]

\* ReviewSession(repo_path, summary)
SessionRow(repo_path, summary) == [repo_path |-> repo_path, summary |-> summary]

InitFinding ==
    \E n \in 1..MaxSuggestions :
        \E patches \in [1..n -> SuggestedPatches] :
            /\ files = [p \in Paths |->
                           IF p = F THEN Terminated(ReviewedLines) ELSE NoFile]
            /\ db = [sessions |-> <<SessionRow("repo", <<>>)>>,
                     suggestions |->
                         [k \in 1..n |->
                             SuggestionRow(1, "RefactoringAgent", "m", patches[k],
                                           TargetFile(SplitLines(patches[k])),
                                           "pending")]]
            /\ req = [p \in Procs |-> Idle]
            /\ budget = MaxRequests
            /\ run = NoRun
            /\ doc = [kind |-> "finding"]

ApplyOps == {"cli_apply", "http_apply"}

\* the suggestion ids a request may name: those of the table and one more
RequestIds == 1..(Len(db.suggestions) + 1)

\* what the caller of the request gets for the outcome: the CLI prints it;
\* the endpoint returns the two statuses and turns everything it raises,
\* its own 404 and 400 included, into a 500
Answer(op, outcome) ==
    IF op = "http_apply" /\ outcome \notin {"applied", "already applied"}
    THEN "500"
    ELSE outcome

\* the request is over: what stays of it is what it was for, what it saw
\* and did, and its answer
Answered(r, outcome) ==
    [Idle EXCEPT !.pc = "done", !.op = r.op, !.sid = r.sid, !.no = r.no,
                 !.seen = r.seen, !.calls = r.calls, !.ret = r.ret,
                 !.answer = Answer(r.op, outcome)]

\* AlreadyApplied with the check left out: the status is not looked at
AlreadyApplied_Unchecked(sugg) == FALSE

\* if sugg.status == "applied"
AlreadyApplied(sugg) == sugg.status = "applied"

\* apply, from the query for the suggestion to the call of
\* apply_patch_to_file
ApplyLoad(p) ==
    /\ req[p].pc \in {"idle", "done"}
    /\ budget > 0
    /\ budget' = budget - 1
    /\ \E op \in ApplyOps, suggestion_id \in RequestIds :
        LET r == [Idle EXCEPT !.op = op, !.sid = suggestion_id, !.no = budget]
        IN  req' = [req EXCEPT ![p] =
                IF suggestion_id \notin DOMAIN db.suggestions
                THEN Answered(r, "not found")
                ELSE LET sugg == db.suggestions[suggestion_id]
                         seen == [r EXCEPT !.seen = sugg.status]
                     IN  IF sugg.patch = <<>> THEN Answered(seen, "no patch")
                         ELSE IF AlreadyApplied(sugg)
                         THEN Answered(seen, "already applied")
                         ELSE IF sugg.session_id \notin DOMAIN db.sessions
                         THEN Answered(seen, "session not found")
                         ELSE EngineCall(seen, sugg.patch)]
    /\ UNCHANGED <<files, db, doc, run>>

\* ApplyFinish without the test of success: the status is set and
\* committed whatever apply_patch_to_file returned
ApplyFinish_IgnoreResult(p) ==
    /\ req[p].pc = "finish"
    /\ req[p].op \in ApplyOps
    /\ db' = [db EXCEPT !.suggestions[req[p].sid].status = "applied"]
    /\ req' = [req EXCEPT ![p] = Answered(@, "applied")]
    /\ UNCHANGED <<files, budget, doc, run>>

\* apply, after apply_patch_to_file has returned: on success the status is
\* set and committed
ApplyFinish(p) ==
    /\ req[p].pc = "finish"
    /\ req[p].op \in ApplyOps
    /\ IF req[p].ret = "true"
       THEN /\ db' = [db EXCEPT !.suggestions[req[p].sid].status = "applied"]
            /\ req' = [req EXCEPT ![p] = Answered(@, "applied")]
       ELSE /\ db' = db
            /\ req' = [req EXCEPT ![p] = Answered(@, "failed")]
    /\ UNCHANGED <<files, budget, doc, run>>

\* reject, whole
Reject(p) ==
    /\ req[p].pc \in {"idle", "done"}
    /\ budget > 0
    /\ budget' = budget - 1
    /\ \E suggestion_id \in RequestIds :
        LET r == [Idle EXCEPT !.op = "cli_reject", !.sid = suggestion_id,
                              !.no = budget]
        IN  IF suggestion_id \notin DOMAIN db.suggestions
            THEN /\ req' = [req EXCEPT ![p] = Answered(r, "not found")]
                 /\ db' = db
            ELSE LET sugg == db.suggestions[suggestion_id]
                     seen == [r EXCEPT !.seen = sugg.status]
                 IN  IF sugg.status = "rejected"
                     THEN /\ req' = [req EXCEPT ![p] =
                                        Answered(seen, "already rejected")]
                          /\ db' = db
                     ELSE /\ req' = [req EXCEPT ![p] = Answered(seen, "rejected")]
                          /\ db' = [db EXCEPT
                                       !.suggestions[suggestion_id].status = "rejected"]
    /\ UNCHANGED <<files, doc, run>>

\* requests served in an environment without I/O faults: an apply fails when
\* the target of its patch is not there
NextFinding ==
    \/ \E p \in Procs : ApplyLoad(p)
    \/ \E p \in Procs : EngineRead(p)
    \/ \E p \in Procs : EngineWrite(p)
    \/ \E p \in Procs : ApplyFinish(p)
    \/ \E p \in Procs : Reject(p)

SpecFinding == InitFinding /\ [][NextFinding]_vars

\* worker p takes up an apply request for suggestion s in this step
ApplyArrives(p, s) ==
    /\ req'[p].no # req[p].no
    /\ req'[p].op \in ApplyOps
    /\ req'[p].sid = s

\* C5: when an apply request arrives for a suggestion whose status is
\* already 'applied', the request reports 'already applied',
\* apply_patch_to_file is not called, and neither the files nor the
\* suggestion's status change.
AlreadyAppliedIsNoop ==
    [][\A p \in Procs, s \in DOMAIN db.suggestions :
          (ApplyArrives(p, s) /\ db.suggestions[s].status = "applied")
              => /\ req'[p].answer = "already applied"
                 /\ req'[p].pc = "done"
                 /\ req'[p].calls = 0
                 /\ files' = files
                 /\ db' = db]_vars

\* an apply request found its suggestion applied and has answered
AppliedTwice ==
    \E p \in Procs :
        /\ req[p].op \in ApplyOps
        /\ req[p].seen = "applied"
        /\ req[p].answer = "already applied"
        /\ db.suggestions[req[p].sid].status = "applied"

\* C6: once the status of a suggestion is 'applied', no apply and no reject
\* changes it.
AppliedIsTerminal ==
    [][\A s \in DOMAIN db.suggestions :
          db.suggestions[s].status = "applied"
              => db'.suggestions[s].status = "applied"]_vars

\* ------------------------------------------------------------------------
\* The concurrent orchestrator: AgentOrchestrator.run_review of
\* multi_agent_framework_v2
\* ------------------------------------------------------------------------

\* self.agents, in registration order
Agents == <<"LintingAgent", "RefactoringAgent", "DependencyAgent", "LLMReviewAgent">>

AgentIds == 1..Len(Agents)

\* the most findings an analyzer emits
MaxFindings == 2

\* a key the finding does not have
Missing == <<"missing">>

\* the k-th finding of analyzer a, a mapping: the first has a message only,
\* the second a patch and a file path only, the later ones all three
Finding(a, k) ==
    [mapping |-> TRUE,
     message |-> IF k = 2 THEN Missing ELSE <<"m">> \o DecStr(a) \o DecStr(k),
     patch |-> IF k = 1 THEN Missing ELSE <<"p">> \o DecStr(a) \o DecStr(k),
     file_path |-> IF k = 1 THEN Missing ELSE F]

\* a finding that is not a mapping
NotAMapping ==
    [mapping |-> FALSE, message |-> Missing, patch |-> Missing, file_path |-> Missing]

\* what agent.run of analyzer a may do: raise, return None, return a list
\* of findings, return a list whose last element is not a mapping
Outcomes(a) ==
    {[kind |-> "raise", items |-> <<>>], [kind |-> "none", items |-> <<>>]}
    \cup {[kind |-> "list", items |-> [k \in 1..n |-> Finding(a, k)]] :
             n \in 0..MaxFindings}
    \cup {[kind |-> "list",
           items |-> [k \in 1..MaxFindings |->
                         IF k = MaxFindings THEN NotAMapping ELSE Finding(a, k)]]}

\* the task of an analyzer that has not settled
Pending == [kind |-> "pending", items |-> <<>>]

\* RunAgent without the except branch: the exception leaves the task
RunAgent_NoCatch(outcome) == outcome

\* run_agent: what the task returns for what agent.run did; an exception is
\* caught and gives the empty list
RunAgent(outcome) ==
    IF outcome.kind = "raise" THEN [kind |-> "list", items |-> <<>>] ELSE outcome

\* suggestion.get(key, default)
Get(suggestion, key, default) ==
    IF suggestion[key] = Missing THEN default ELSE suggestion[key]

\* the entry of all_suggestions for a suggestion stored with the id
Reported(id, agent_name, suggestion) ==
    [id |-> id, agent |-> agent_name,
     message |-> Get(suggestion, "message", <<>>),
     patch |-> Get(suggestion, "patch", None),
     file_path |-> Get(suggestion, "file_path", None),
     status |-> "pending"]

\* run_review has been called: the session is stored and the tasks of the
\* analyzers are in flight
ReviewStart ==
    /\ run.pc = "none"
    /\ db' = [db EXCEPT !.sessions = Append(@, SessionRow("repo", <<>>))]
    /\ run' = [pc |-> "gather", session |-> Len(db.sessions) + 1,
               did |-> [a \in AgentIds |-> Pending],
               tasks |-> [a \in AgentIds |-> Pending],
               order |-> <<>>, all_suggestions |-> <<>>,
               summary_runs |-> 0, summary_input |-> <<>>]
    /\ UNCHANGED <<files, req, budget, doc>>

\* the task of analyzer a settles
TaskSettle(a) ==
    /\ run.pc = "gather"
    /\ run.tasks[a] = Pending
    /\ \E outcome \in Outcomes(a) :
        run' = [run EXCEPT !.did[a] = outcome,
                           !.tasks[a] = RunAgent(outcome),
                           !.order = Append(@, a)]
    /\ UNCHANGED <<files, db, req, budget, doc>>

\* GatherResults as asyncio.as_completed would give them: the results in
\* the order the tasks settled
GatherResults_CompletionOrder(tasks, order) ==
    [i \in 1..Len(order) |->
        [agent_name |-> Agents[order[i]], suggestions |-> tasks[order[i]]]]

\* asyncio.gather: the results of the tasks in the order of self.agents,
\* each the pair (agent_name, suggestions)
GatherResults(tasks, order) ==
    [i \in AgentIds |-> [agent_name |-> Agents[i], suggestions |-> tasks[i]]]

\* the loop over agent_results, at the j-th suggestion of the i-th result;
\* st holds the suggestions table, all_suggestions, and whether the loop
\* has raised: iterating None raises, and so does .get of a suggestion
\* that is not a mapping; a suggestion is stored and committed before the
\* next is looked at
RECURSIVE ProcessLoop(_, _, _, _, _)
ProcessLoop(agent_results, i, j, st, session_id) ==
    IF i > Len(agent_results) THEN st
    ELSE LET agent_name == agent_results[i].agent_name
             suggestions == agent_results[i].suggestions
         IN  IF suggestions.kind = "none" THEN [st EXCEPT !.raised = TRUE]
             ELSE IF j > Len(suggestions.items)
             THEN ProcessLoop(agent_results, i + 1, 1, st, session_id)
             ELSE LET suggestion == suggestions.items[j]
                  IN  IF ~suggestion.mapping THEN [st EXCEPT !.raised = TRUE]
                      ELSE CHOOSE out \in
                             {ProcessLoop(agent_results, i, j + 1, next, session_id) :
                                next \in {[st EXCEPT
                                   !.rows = Append(@,
                                       SuggestionRow(session_id, agent_name,
                                           Get(suggestion, "message", <<>>),
                                           Get(suggestion, "patch", None),
                                           Get(suggestion, "file_path", None),
                                           "pending")),
                                   !.all = Append(@,
                                       Reported(Len(st.rows) + 1, agent_name,
                                                suggestion))]}} : TRUE

\* from the return of asyncio.gather to the end of the loop that stores the
\* suggestions; an exception gathered from a task is raised by the await
ReviewProcess ==
    /\ run.pc = "gather"
    /\ \A a \in AgentIds : run.tasks[a] # Pending
    /\ \E agent_results \in {GatherResults(run.tasks, run.order)} :
        \E st \in {IF \E i \in DOMAIN agent_results :
                         agent_results[i].suggestions.kind = "raise"
                   THEN [rows |-> db.suggestions, all |-> <<>>, raised |-> TRUE]
                   ELSE ProcessLoop(agent_results, 1, 1,
                            [rows |-> db.suggestions, all |-> <<>>,
                             raised |-> FALSE], run.session)} :
            /\ db' = [db EXCEPT !.suggestions = st.rows]
            /\ run' = [run EXCEPT !.pc = IF st.raised THEN "raised" ELSE "summary",
                                  !.all_suggestions = st.all]
    /\ UNCHANGED <<files, req, budget, doc>>

\* next((a for a in self.agents if isinstance(a, MetaReviewAgent)), None):
\* the place of the first such agent in self.agents, 0 for None
MetaAgent(agents) ==
    LET found == {i \in DOMAIN agents : agents[i] = "MetaReviewAgent"}
    IN  IF found = {} THEN 0 ELSE CHOOSE i \in found : \A k \in found : i <= k

\* the text a summary run gives
SummaryText == <<"s">>

\* the summary step and the return: with a meta agent, its run gets
\* all_suggestions and its summary is stored, unless it raises, which is
\* logged
ReviewSummary ==
    /\ run.pc = "summary"
    /\ \E raises \in BOOLEAN :
        IF MetaAgent(Agents) # 0
        THEN /\ run' = [run EXCEPT !.pc = "returned",
                                   !.summary_runs = @ + 1,
                                   !.summary_input = run.all_suggestions]
             /\ db' = IF raises THEN db
                      ELSE [db EXCEPT !.sessions[run.session].summary = SummaryText]
        ELSE /\ run' = [run EXCEPT !.pc = "returned"]
             /\ db' = db
    /\ UNCHANGED <<files, req, budget, doc>>

InitReview ==
    /\ files = [p \in Paths |-> IF p = F THEN Terminated(ReviewedLines) ELSE NoFile]
    /\ db = EmptyDb
    /\ req = [p \in Procs |-> Idle]
    /\ budget = 0
    /\ run = NoRun
    /\ doc = [kind |-> "review"]

NextReview ==
    \/ ReviewStart
    \/ \E a \in AgentIds : TaskSettle(a)
    \/ ReviewProcess
    \/ ReviewSummary

SpecReview == InitReview /\ [][NextReview]_vars

\* the entry without its id
WithoutId(entry) ==
    [agent |-> entry.agent, message |-> entry.message, patch |-> entry.patch,
     file_path |-> entry.file_path, status |-> entry.status]

\* the findings analyzer a emitted, as the returned list is to show them
EmittedBy(a) ==
    [k \in 1..Len(run.did[a].items) |->
        WithoutId(Reported(0, Agents[a], run.did[a].items[k]))]

\* the entries of the returned list that carry the name of analyzer a
ReturnedFor(a) ==
    LET OfAgent(entry) == entry.agent = Agents[a]
        entries == SelectSeq(run.all_suggestions, OfAgent)
    IN  [k \in 1..Len(entries) |-> WithoutId(entries[k])]

\* agent.run of analyzer a returned a list of mappings
ReturnedFindings(a) ==
    /\ run.did[a].kind = "list"
    /\ \A k \in 1..Len(run.did[a].items) : run.did[a].items[k].mapping

\* run_review is over, by return or by exception
ReviewOver == run.pc \in {"returned", "raised"}

\* C2: if the run of an analyzer raises while every other analyzer returns
\* its findings, run_review returns normally and the returned list holds
\* every finding of each of the other analyzers.
FailureIsolation ==
    (/\ ReviewOver
     /\ \E a \in AgentIds : run.did[a].kind = "raise"
     /\ \A a \in AgentIds : run.did[a].kind = "raise" \/ ReturnedFindings(a))
        => /\ run.pc = "returned"
           /\ \A a \in AgentIds :
                 ReturnedFindings(a) => ReturnedFor(a) = EmittedBy(a)

\* run_review has returned after the second analyzer raised, with the
\* findings of the first and of the third in the list
OneRaisedOthersReturned ==
    /\ run.pc = "returned"
    /\ run.did[2].kind = "raise"
    /\ ReturnedFindings(1) /\ Len(run.did[1].items) = MaxFindings
    /\ ReturnedFindings(3) /\ Len(run.did[3].items) > 0
    /\ ReturnedFor(1) = EmittedBy(1)
    /\ ReturnedFor(3) = EmittedBy(3)

\* the findings of the analyzers from a on, in registration order
RECURSIVE InRegistrationOrder(_)
InRegistrationOrder(a) ==
    IF a > Len(Agents) THEN <<>> ELSE EmittedBy(a) \o InRegistrationOrder(a + 1)

\* C3: whatever the order in which the analyzer tasks settle, the returned
\* list is the concatenation, in registration order, of the findings of
\* each analyzer in its own emission order.
RegistrationOrder ==
    run.pc = "returned"
        => [k \in 1..Len(run.all_suggestions) |-> WithoutId(run.all_suggestions[k])]
               = InRegistrationOrder(1)

\* run_review has returned findings of two analyzers of which the one
\* registered later settled first
LaterSettledFirst ==
    /\ run.pc = "returned"
    /\ \E i, j \in 1..Len(run.order) :
        /\ i < j
        /\ run.order[i] > run.order[j]
        /\ Len(run.did[run.order[i]].items) > 0
        /\ Len(run.did[run.order[j]].items) > 0
    /\ Len(run.all_suggestions) > 1

\* C4: in every run of run_review that returns, the summary step has run
\* exactly once, after every analyzer task has settled, on the complete
\* list of findings.
SummaryRunsOnce ==
    run.pc = "returned"
        => /\ run.summary_runs = 1
           /\ run.summary_input = run.all_suggestions
           /\ \A a \in AgentIds : run.tasks[a] # Pending

\* ------------------------------------------------------------------------
\* Hunks that run past the end of the file: the diffs of ascending hunks
\* made for the example file, applied to a file that holds only its first
\* lines, or nothing
\* ------------------------------------------------------------------------

\* the files of at most n of the first lines of the example file
Truncated(n) ==
    UNION {Contents(SubSeq(ExampleLines, 1, k)) : k \in 0..n}

InitOverrun ==
    \E orig \in Truncated(MaxLen - 1),
       hunks \in AscendingHunks(Len(ExampleLines), 0, MaxOps - 2, MaxHunks) :
        /\ files = [p \in Paths |-> IF p = F THEN orig ELSE NoFile]
        /\ db = EmptyDb
        /\ req = [p \in Procs |->
                     IF p = 1 THEN Direct(DiffText(F, hunks, ExampleLines))
                     ELSE Idle]
        /\ budget = 0
        /\ run = NoRun
        /\ doc = [kind |-> "overrun", orig |-> orig, hunks |-> hunks]

SpecOverrun == InitOverrun /\ [][NextEngine]_vars

\* the original lines from 0-based line cur up to, not including, line to,
\* as far as there are any
Remaining(orig, cur, to) ==
    IF cur < Min(to, Len(orig)) THEN SubSeq(orig, cur + 1, Min(to, Len(orig)))
    ELSE <<>>

\* what applying ascending hunks to the lines orig is to give when the
\* hunks may lie past the end of orig, from the k-th hunk on
RECURSIVE ExpectedPastEnd(_, _, _, _, _)
ExpectedPastEnd(orig, hunks, texts, k, cur) ==
    IF k > Len(hunks) THEN Remaining(orig, cur, Len(orig))
    ELSE LET h == hunks[k]
         IN  Remaining(orig, cur, h.start - 1)
             \o Produced(BodyLines(h.tags, texts, h.start - 1, k))
             \o ExpectedPastEnd(orig, hunks, texts, k + 1,
                                h.start - 1 + Consumed(h.tags))

\* the 0-based line the last hunk ends at
FinalCursor(hunks) ==
    IF hunks = <<>> THEN 0
    ELSE hunks[Len(hunks)].start - 1 + Consumed(hunks[Len(hunks)].tags)

\* C11: apply_patch_to_file completes for every diff and every file, also
\* when a hunk starts past the end of the file or consumes more lines than
\* the file has: the original lines from the final cursor on are copied to
\* the output, and nothing is copied when the cursor is past the end.
OverrunTerminates ==
    \A p \in Procs :
        (doc.kind = "overrun" /\ req[p].pc # "idle")
            => /\ req[p].pc \in {"engine", "write", "finish"}
               /\ req[p].ret # "false"
               /\ req[p].pc # "engine" =>
                     /\ req[p].pointer = FinalCursor(doc.hunks)
                     /\ req[p].new_lines =
                            ExpectedPastEnd(req[p].original_lines, doc.hunks,
                                            ExampleLines, 1, 0)
                     /\ \E head \in {SubSeq(req[p].new_lines, 1, n) :
                                        n \in 0..Len(req[p].new_lines)} :
                            req[p].new_lines =
                                head \o Remaining(req[p].original_lines,
                                                  req[p].pointer,
                                                  Len(req[p].original_lines))

\* a diff whose hunk starts past the end of the file and whose ops consume
\* lines the file does not have has been applied: the cursor ended past the
\* end
CursorPastEnd ==
    /\ doc.kind = "overrun"
    /\ req[1].ret = "true"
    /\ doc.hunks # <<>>
    /\ doc.hunks[Len(doc.hunks)].start > Len(req[1].original_lines) + 1
    /\ Consumed(doc.hunks[Len(doc.hunks)].tags) > 0
    /\ req[1].pointer > Len(req[1].original_lines)
    /\ req[1].original_lines # <<>>

\* ------------------------------------------------------------------------
\* Diff texts without a hunk: the empty text, and texts of header lines and
\* other lines none of which starts with '@@'
\* ------------------------------------------------------------------------

\* the most lines of a diff text without a hunk
MaxPlainLines == 3

\* the lines of such a text: the headers of F, with and without the prefix
\* b/, the '+++ ' header of the file that is not there, a line of no kind,
\* the empty line, and lines that would be ops inside a hunk
PlainLines ==
    { HeaderMinus \o <<"a", "/">> \o F, HeaderPlus \o <<"b", "/">> \o F,
      HeaderPlus \o F, HeaderPlus \o <<"b", "/">> \o G,
      <<"x">>, <<>>, <<" ", "a">>, <<"-", "a">>, <<"+", "B">> }

NoHunkTexts ==
    {<<>>} \cup
    {JoinNL(lines) \o <<NL>> :
        lines \in UNION {[1..n -> PlainLines] : n \in 1..MaxPlainLines}}

InitNoHunk ==
    \E orig \in {<<>>} \cup Contents(ReviewedLines), patch \in NoHunkTexts :
        /\ files = [p \in Paths |-> IF p = F THEN orig ELSE NoFile]
        /\ db = EmptyDb
        /\ req = [p \in Procs |-> IF p = 1 THEN Direct(patch) ELSE Idle]
        /\ budget = 0
        /\ run = NoRun
        /\ doc = [kind |-> "nohunk", orig |-> orig]

SpecNoHunk == InitNoHunk /\ [][NextEngine]_vars

\* C12: applying a diff text that contains no hunk (the empty text, or only
\* header lines and other lines that are not hunks) leaves the line
\* sequence of the target file equal to the original.
NoHunkNoChange ==
    doc.kind = "nohunk" =>
        /\ files[F] = doc.orig
        /\ files[G] = NoFile
        /\ \A p \in Procs :
              req[p].pc \in {"write", "finish"} /\ req[p].ret # "false"
                  => req[p].new_lines = KeepEnds(doc.orig)

\* a text of the two headers of F and a line that would be an op inside a
\* hunk has been applied to a file whose last line is not terminated, and
\* the file has been written
HeadersOnlyApplied ==
    /\ doc.kind = "nohunk"
    /\ doc.orig = Unterminated(ReviewedLines)
    /\ req[1].ret = "true"
    /\ SplitLines(req[1].patch) =
           << HeaderMinus \o <<"a", "/">> \o F, HeaderPlus \o <<"b", "/">> \o F,
              <<"-", "a">> >>
    /\ files[F] = doc.orig

\* ------------------------------------------------------------------------
\* The ops of a hunk one by one: the diffs of ascending hunks made for the
\* example file, applied to the example file or to a file whose second and
\* fifth lines have changed since
\* ------------------------------------------------------------------------

\* the example file after a change of its lines 2 and 5
ChangedLines == << <<"a">>, <<"X">>, <<"c">>, <<"d">>, <<"Y">> >>

InitOps ==
    \E orig \in Contents(ExampleLines) \cup Contents(ChangedLines),
       hunks \in AscendingHunks(Len(ExampleLines), 0, MaxOps - 2, MaxHunks) :
        /\ files = [p \in Paths |-> IF p = F THEN orig ELSE NoFile]
        /\ db = EmptyDb
        /\ req = [p \in Procs |->
                     IF p = 1 THEN Direct(DiffText(F, hunks, ExampleLines))
                     ELSE Idle]
        /\ budget = 0
        /\ run = NoRun
        /\ doc = [kind |-> "ops", orig |-> orig, hunks |-> hunks]

SpecOps == InitOps /\ [][NextEngine]_vars

\* what the ops tagged tags, the k-th hunk's, are to append with the cursor
\* at 0-based line q of orig: a context op the original line at the cursor,
\* a delete op nothing, an insert op its payload as a line
RECURSIVE OpsAppend(_, _, _, _)
OpsAppend(tags, orig, q, k) ==
    IF tags = <<>> THEN <<>>
    ELSE LET t == Head(tags)
         IN  (IF t = " " THEN Remaining(orig, q, q + 1)
              ELSE IF t = "+"
              THEN << InsertTexts[((k - 1) % Len(InsertTexts)) + 1] \o <<NL>> >>
              ELSE <<>>)
             \o OpsAppend(Tail(tags), orig, IF t = "+" THEN q ELSE q + 1, k)

\* the output for ascending hunks under that reading of the ops, from the
\* k-th hunk on
RECURSIVE OpsOutput(_, _, _, _)
OpsOutput(orig, hunks, k, cur) ==
    IF k > Len(hunks) THEN Remaining(orig, cur, Len(orig))
    ELSE LET h == hunks[k]
         IN  Remaining(orig, cur, h.start - 1)
             \o OpsAppend(h.tags, orig, h.start - 1, k)
             \o OpsOutput(orig, hunks, k + 1, h.start - 1 + Consumed(h.tags))

\* C13: a context op appends the original line at the cursor, its text and
\* its terminator, not the payload of the op, and moves the cursor by one;
\* a delete op appends nothing and moves the cursor by one; an insert op
\* appends its payload and leaves the cursor.
OpSemantics ==
    \A p \in Procs :
        (doc.kind = "ops" /\ req[p].pc \in {"write", "finish"})
            => /\ req[p].pointer = FinalCursor(doc.hunks)
               /\ req[p].new_lines =
                      OpsOutput(req[p].original_lines, doc.hunks, 1, 0)

\* the same for the diffs without a context op
OpSemanticsWithoutContext ==
    \A p \in Procs :
        (/\ doc.kind = "ops" /\ req[p].pc \in {"write", "finish"}
         /\ \A k \in 1..Len(doc.hunks) :
               \A n \in 1..Len(doc.hunks[k].tags) : doc.hunks[k].tags[n] # " ")
            => /\ req[p].pointer = FinalCursor(doc.hunks)
               /\ req[p].new_lines =
                      OpsOutput(req[p].original_lines, doc.hunks, 1, 0)

\* ------------------------------------------------------------------------
\* A line that is no op inside a hunk body: the diffs of ascending hunks in
\* which one hunk has such a line before its j-th op, or after its last
\* ------------------------------------------------------------------------

\* lines that start with none of ' ', '-', '+', '@@': a word, the empty line,
\* and the marker diff -u writes after a line without a newline
StrayLines ==
    { <<"x">>, <<>>, <<"\\", " ", "N", "o", " ", "n", "e", "w", "l", "i", "n", "e">> }

\* the lines of the hunks from the k-th on, the hunk numbered at having the
\* line stray before its j-th body line
RECURSIVE StrayHunksText(_, _, _, _, _, _, _)
StrayHunksText(hunks, texts, k, shift, at, j, stray) ==
    IF k > Len(hunks) THEN <<>>
    ELSE LET h == hunks[k]
             body == BodyLines(h.tags, texts, h.start - 1, k)
         IN  <<HunkHeader(h.start, Consumed(h.tags), h.start + shift, Emitted(h.tags))>>
             \o (IF k = at
                 THEN SubSeq(body, 1, j - 1) \o <<stray>> \o SubSeq(body, j, Len(body))
                 ELSE body)
             \o StrayHunksText(hunks, texts, k + 1,
                               shift + Emitted(h.tags) - Consumed(h.tags),
                               at, j, stray)

InitStray ==
    \E orig \in Contents(ExampleLines),
       hunks \in AscendingHunks(Len(ExampleLines), 0, MaxOps - 2, MaxHunks) \ {<<>>},
       stray \in StrayLines :
        \E at \in 1..Len(hunks) :
            \E j \in 1..(Len(hunks[at].tags) + 1) :
                /\ files = [p \in Paths |-> IF p = F THEN orig ELSE NoFile]
                /\ db = EmptyDb
                /\ req = [p \in Procs |->
                             IF p = 1
                             THEN Direct(JoinNL(FileHeader(F)
                                      \o StrayHunksText(hunks, ExampleLines, 1, 0,
                                                        at, j, stray))
                                      \o <<NL>>)
                             ELSE Idle]
                /\ budget = 0
                /\ run = NoRun
                /\ doc = [kind |-> "stray", orig |-> orig, hunks |-> hunks,
                          at |-> at, j |-> j]

SpecStray == InitStray /\ [][NextEngine]_vars

\* C14: the first line of a hunk body that starts with none of ' ', '-',
\* '+' ends the hunk: the op lines that follow it before the next '@@'
\* header add nothing to the output and do not move the cursor.
StrayLineEndsHunk ==
    \A p \in Procs :
        (doc.kind = "stray" /\ req[p].pc \in {"write", "finish"})
            => req[p].new_lines =
                   ExpectedPastEnd(req[p].original_lines,
                       [doc.hunks EXCEPT ![doc.at].tags = SubSeq(@, 1, doc.j - 1)],
                       ExampleLines, 1, 0)

\* what the code does with such a line: it is skipped, and the ops after it
\* are replayed as if it were not there
StrayLineSkipped ==
    \A p \in Procs :
        (doc.kind = "stray" /\ req[p].pc \in {"write", "finish"})
            => req[p].new_lines =
                   ExpectedPastEnd(req[p].original_lines, doc.hunks,
                                   ExampleLines, 1, 0)

\* ------------------------------------------------------------------------
\* The target side of the hunk headers: the diffs of ascending hunks with
\* the target start and count of every header replaced
\* ------------------------------------------------------------------------

\* target sides to put in place of the true ones: a start and count that
\* fit no file under test, and a start without a count
TargetSides ==
    { <<"1", "2", ",", "3">>, <<"0">> }

\* '@@ -S,C +T @@' for the target side T
HeaderWithTarget(s, c, target) ==
    <<"@", "@", " ", "-">> \o DecStr(s) \o <<",">> \o DecStr(c)
    \o <<" ", "+">> \o target \o <<" ", "@", "@">>

\* the lines of the hunks from the k-th on with the target sides targets
RECURSIVE RetargetedText(_, _, _, _)
RetargetedText(hunks, targets, texts, k) ==
    IF k > Len(hunks) THEN <<>>
    ELSE LET h == hunks[k]
         IN  <<HeaderWithTarget(h.start, Consumed(h.tags), targets[k])>>
             \o BodyLines(h.tags, texts, h.start - 1, k)
             \o RetargetedText(hunks, targets, texts, k + 1)

InitTargets ==
    \E orig \in Contents(ExampleLines),
       hunks \in AscendingHunks(Len(ExampleLines), 0, MaxOps - 2, MaxHunks) \ {<<>>} :
        \E targets \in [1..Len(hunks) -> TargetSides] :
            /\ files = [p \in Paths |-> IF p = F THEN orig ELSE NoFile]
            /\ db = EmptyDb
            /\ req = [p \in Procs |->
                         IF p = 1
                         THEN Direct(JoinNL(FileHeader(F)
                                  \o RetargetedText(hunks, targets, ExampleLines, 1))
                                  \o <<NL>>)
                         ELSE Idle]
            /\ budget = 0
            /\ run = NoRun
            /\ doc = [kind |-> "targets", orig |-> orig, hunks |-> hunks,
                      targets |-> targets]

SpecTargets == InitTargets /\ [][NextEngine]_vars

\* C15: two diffs with well-formed headers that differ only in the target
\* start and count of their hunk headers give the same output and the same
\* result on the same original: the output for the replaced target sides is
\* the output for the true ones, and the call succeeds as it does for them.
TargetSideIgnored ==
    \A p \in Procs :
        (doc.kind = "targets" /\ req[p].pc # "idle")
            => /\ req[p].ret # "false"
               /\ req[p].pc \in {"write", "finish"} =>
                     req[p].new_lines =
                         Replay(SplitLines(DiffText(F, doc.hunks, ExampleLines)),
                                req[p].original_lines)

\* a diff of two hunks whose headers carry the target side '+12,3' has been
\* applied and has changed the file
RetargetedApplied ==
    /\ doc.kind = "targets"
    /\ Len(doc.hunks) = 2
    /\ \A k \in 1..2 : doc.targets[k] = <<"1", "2", ",", "3">>
    /\ req[1].ret = "true"
    /\ files[F] # doc.orig

\* C17: no analyzer fault escapes run_review: whether the run of an analyzer
\* raises, returns None, or returns a list holding a finding that is not a
\* mapping, run_review does not raise and returns the findings of the other
\* analyzers.
FaultsNeverEscape ==
    ReviewOver
        => /\ run.pc = "returned"
           /\ \A a \in AgentIds :
                 ReturnedFindings(a) => ReturnedFor(a) = EmittedBy(a)

\* ------------------------------------------------------------------------
\* Cancellation of run_review while it awaits asyncio.gather
\* ------------------------------------------------------------------------

\* the task of an analyzer cancelled before it settled
Cancelled == [kind |-> "cancelled", items |-> <<>>]

\* the task of run_review is cancelled while it awaits asyncio.gather with
\* a task in flight: gather cancels every child that has not settled, the
\* await raises CancelledError, which no except clause of run_review
\* catches, and the finally clause closes the database session; the loop
\* that stores the suggestions and the summary step are never reached
ReviewCancel ==
    /\ run.pc = "gather"
    /\ \E a \in AgentIds : run.tasks[a] = Pending
    /\ run' = [run EXCEPT !.pc = "cancelled",
                          !.tasks = [a \in AgentIds |->
                                        IF run.tasks[a] = Pending THEN Cancelled
                                        ELSE run.tasks[a]]]
    /\ UNCHANGED <<files, db, req, budget, doc>>

NextCancel ==
    \/ ReviewStart
    \/ \E a \in AgentIds : TaskSettle(a)
    \/ ReviewProcess
    \/ ReviewSummary
    \/ ReviewCancel

SpecCancel == InitReview /\ [][NextCancel]_vars

\* the suggestions recorded for the session of the run under the name of
\* analyzer a, as the returned list would show them
RecordedFor(a) ==
    LET OfAgent(row) == row.session_id = run.session /\ row.agent = Agents[a]
        rows == SelectSeq(db.suggestions, OfAgent)
    IN  [k \in 1..Len(rows) |->
            [agent |-> rows[k].agent, message |-> rows[k].message,
             patch |-> rows[k].patch, file_path |-> rows[k].file_path,
             status |-> rows[k].status]]

\* C16: after the cancellation of a run with analyzer tasks in flight, every
\* in-flight task is cancelled, the summary step has not run, the findings
\* of every analyzer that had completed are recorded for the session, and
\* no finding of an analyzer that had not completed is.
CancellationKeepsCompleted ==
    run.pc = "cancelled"
        => /\ \A a \in AgentIds : run.tasks[a] # Pending
           /\ run.summary_runs = 0
           /\ db.sessions[run.session].summary = <<>>
           /\ \A a \in AgentIds :
                 IF run.did[a] = Pending THEN RecordedFor(a) = <<>>
                 ELSE ReturnedFindings(a) => RecordedFor(a) = EmittedBy(a)

\* what the cancellation does keep: every in-flight task is cancelled, the
\* summary step has not run, and nothing is recorded for the session
CancellationRecordsNothing ==
    run.pc = "cancelled"
        => /\ \A a \in AgentIds : run.tasks[a] # Pending
           /\ \E a \in AgentIds : run.tasks[a] = Cancelled
           /\ run.summary_runs = 0
           /\ db.sessions[run.session].summary = <<>>
           /\ \A a \in AgentIds : RecordedFor(a) = <<>>

\* ------------------------------------------------------------------------
\* The sequential orchestrator: AgentOrchestrator.run_review of
\* src/backend/orchestrator.py
\* ------------------------------------------------------------------------

\* self.agents, in registration order
SeqAgents == <<"LintingAgent", "RefactoringAgent", "DependencyAgent", "LLMReviewAgent">>

SeqAgentIds == 1..Len(SeqAgents)

\* the k-th finding of analyzer a, a mapping with a message: the first has
\* neither patch nor file path, the later ones have both
SeqFinding(a, k) ==
    [mapping |-> TRUE,
     message |-> <<"m">> \o DecStr(a) \o DecStr(k),
     patch |-> IF k = 1 THEN Missing ELSE <<"p">> \o DecStr(a) \o DecStr(k),
     file_path |-> IF k = 1 THEN Missing ELSE F]

\* a finding without the key 'message'
NoMessage == [mapping |-> TRUE, message |-> Missing, patch |-> <<"p">>, file_path |-> F]

\* what agent.run of analyzer a may do: raise, return None, return a list
\* of findings, return a list whose last element is not a mapping or has
\* no message
SeqOutcomes(a) ==
    {[kind |-> "raise", items |-> <<>>], [kind |-> "none", items |-> <<>>]}
    \cup {[kind |-> "list", items |-> [k \in 1..n |-> SeqFinding(a, k)]] :
             n \in 0..MaxFindings}
    \cup {[kind |-> "list",
           items |-> [k \in 1..MaxFindings |->
                         IF k = MaxFindings THEN last ELSE SeqFinding(a, k)]] :
             last \in {NotAMapping, NoMessage}}

\* the dict built for a finding: sugg['message'], sugg.get('patch'),
\* sugg.get('file_path')
SeqSuggestion(agent_name, sugg) ==
    [agent |-> agent_name, message |-> sugg.message,
     patch |-> Get(sugg, "patch", None),
     file_path |-> Get(sugg, "file_path", None),
     status |-> "pending"]

\* Suggestion(session_id=session.id, **suggestion)
SeqRow(session_id, suggestion) ==
    SuggestionRow(session_id, suggestion.agent, suggestion.message,
                  suggestion.patch, suggestion.file_path, suggestion.status)

\* the loop over agent_suggestions, at its k-th element; st holds
\* all_suggestions, the rows added to the database session, and whether an
\* exception has reached the except clause: sugg['message'] raises for an
\* element that is not a mapping or has no message; what was appended and
\* added before stays
RECURSIVE SeqLoop(_, _, _, _, _)
SeqLoop(agent_name, items, k, st, session_id) ==
    IF k > Len(items) THEN st
    ELSE IF ~items[k].mapping \/ items[k].message = Missing
    THEN [st EXCEPT !.caught = TRUE]
    ELSE CHOOSE out \in
           {SeqLoop(agent_name, items, k + 1, next, session_id) :
              next \in {[st EXCEPT
                 !.all = Append(@, SeqSuggestion(agent_name, items[k])),
                 !.added = Append(@, SeqRow(session_id,
                                      SeqSuggestion(agent_name, items[k])))]}} : TRUE

\* no entry in agent_stats
NoStat == 0 - 1

\* the body of the loop over self.agents for analyzer a, whose run does
\* outcome: an exception of agent.run reaches the except clause at once;
\* None counts as no suggestions in agent_stats and raises when iterated
SeqAgentBody(a, outcome, st, session_id) ==
    IF outcome.kind = "raise" THEN [st EXCEPT !.caught = TRUE]
    ELSE IF outcome.kind = "none"
    THEN [st EXCEPT !.caught = TRUE, !.stats[a] = 0]
    ELSE SeqLoop(SeqAgents[a], outcome.items, 1,
                 [st EXCEPT !.stats[a] = Len(outcome.items)], session_id)

\* run_review has been called: the repository is accessible or the call
\* raises; the session is added and committed
SeqStart ==
    /\ run.pc = "none"
    /\ \E accessible \in BOOLEAN :
        IF accessible
        THEN /\ db' = [db EXCEPT !.sessions = Append(@, SessionRow("repo", None))]
             /\ run' = [pc |-> "agents", session |-> Len(db.sessions) + 1,
                        next |-> 1,
                        did |-> [a \in SeqAgentIds |-> Pending],
                        caught |-> [a \in SeqAgentIds |-> FALSE],
                        stats |-> [a \in SeqAgentIds |-> NoStat],
                        all_suggestions |-> <<>>, added |-> <<>>,
                        summary |-> "none"]
        ELSE /\ db' = db
             /\ run' = [pc |-> "raised", session |-> 0, next |-> 1,
                        did |-> [a \in SeqAgentIds |-> Pending],
                        caught |-> [a \in SeqAgentIds |-> FALSE],
                        stats |-> [a \in SeqAgentIds |-> NoStat],
                        all_suggestions |-> <<>>, added |-> <<>>,
                        summary |-> "none"]
    /\ UNCHANGED <<files, req, budget, doc>>

\* one round of the loop over self.agents
SeqAgent ==
    /\ run.pc = "agents"
    /\ run.next <= Len(SeqAgents)
    /\ \E outcome \in SeqOutcomes(run.next) :
        \E st \in {SeqAgentBody(run.next, outcome,
                       [all |-> run.all_suggestions, added |-> run.added,
                        stats |-> run.stats, caught |-> FALSE], run.session)} :
            run' = [run EXCEPT !.did[run.next] = outcome,
                               !.caught[run.next] = st.caught,
                               !.stats = st.stats,
                               !.all_suggestions = st.all,
                               !.added = st.added,
                               !.next = @ + 1]
    /\ UNCHANGED <<files, db, req, budget, doc>>

\* the text MetaReviewAgent.run gives for no suggestions
NoIssuesText == <<"n">>

\* MetaReviewAgent().run(all_suggestions, chat_memory): the text for an
\* empty list; for a list of dicts the read of the attribute 'agent' of its
\* first element raises; fault is an exception from outside
MetaReviewRun(suggestions_list, fault) ==
    IF fault THEN [kind |-> "raise", text |-> None]
    ELSE IF suggestions_list = <<>> THEN [kind |-> "text", text |-> NoIssuesText]
    ELSE [kind |-> "raise", text |-> None]

\* the summary step without its except clause: the exception leaves
\* run_review
SummaryStep_NoCatch(suggestions_list, fault) ==
    LET r == MetaReviewRun(suggestions_list, fault)
    IN  [escapes |-> r.kind = "raise", set |-> r.kind = "text", summary |-> r.text]

\* the summary step: the summary is set on the session unless the run of
\* the meta agent raises, which is logged
SummaryStep(suggestions_list, fault) ==
    LET r == MetaReviewRun(suggestions_list, fault)
    IN  [escapes |-> FALSE, set |-> r.kind = "text", summary |-> r.text]

\* after the loop: the summary step, the commit of the added rows and of
\* the summary, and the return; an exception that escapes is re-raised and
\* the database session is closed with nothing more committed
SeqSummary ==
    /\ run.pc = "agents"
    /\ run.next > Len(SeqAgents)
    /\ \E fault \in BOOLEAN :
        \E step \in {SummaryStep(run.all_suggestions, fault)} :
            IF step.escapes
            THEN /\ db' = db
                 /\ run' = [run EXCEPT !.pc = "raised", !.summary = "raise"]
            ELSE /\ db' = [db EXCEPT
                             !.suggestions = @ \o run.added,
                             !.sessions[run.session].summary =
                                 IF step.set THEN step.summary ELSE @]
                 /\ run' = [run EXCEPT !.pc = "returned",
                                       !.summary = IF step.set THEN "text" ELSE "raise"]
    /\ UNCHANGED <<files, req, budget, doc>>

NextSequential ==
    \/ SeqStart
    \/ SeqAgent
    \/ SeqSummary

SpecSequential == InitReview /\ [][NextSequential]_vars

\* the rows persisted for the session of the run under the name of
\* analyzer a
SeqPersistedFor(a) ==
    LET OfAgent(row) == row.session_id = run.session /\ row.agent = SeqAgents[a]
    IN  SelectSeq(db.suggestions, OfAgent)

\* the entries of the returned list under the name of analyzer a
SeqReturnedFor(a) ==
    LET OfAgent(entry) == entry.agent = SeqAgents[a]
    IN  SelectSeq(run.all_suggestions, OfAgent)

\* C18: an analyzer for which a fault is caught at the per-analyzer boundary
\* contributes no finding to the returned list and no suggestion to the
\* persisted session, also when the fault occurs at its k-th finding with
\* k > 1, and every analyzer registered after it is still run.
CaughtFaultContributesNothing ==
    run.pc = "returned"
        => \A a \in SeqAgentIds :
              run.caught[a]
                  => /\ SeqReturnedFor(a) = <<>>
                     /\ SeqPersistedFor(a) = <<>>
                     /\ \A b \in SeqAgentIds : b > a => run.did[b] # Pending

\* what does hold: a caught fault of an analyzer stops none of the
\* analyzers registered after it, and an analyzer whose run raises or
\* returns None contributes nothing
CaughtFaultKeepsSiblings ==
    run.pc = "returned"
        => \A a \in SeqAgentIds :
              /\ run.did[a] # Pending
              /\ run.did[a].kind \in {"raise", "none"}
                    => /\ run.caught[a]
                       /\ SeqReturnedFor(a) = <<>>
                       /\ SeqPersistedFor(a) = <<>>

\* the findings of analyzer a that the loop took before a fault, if any
RECURSIVE SeqTaken(_, _, _)
SeqTaken(a, items, k) ==
    IF k > Len(items) THEN <<>>
    ELSE IF ~items[k].mapping \/ items[k].message = Missing THEN <<>>
    ELSE <<SeqSuggestion(SeqAgents[a], items[k])>> \o SeqTaken(a, items, k + 1)

\* the findings collected from the analyzers from a on
RECURSIVE SeqCollected(_)
SeqCollected(a) ==
    IF a > Len(SeqAgents) THEN <<>>
    ELSE SeqTaken(a, run.did[a].items, 1) \o SeqCollected(a + 1)

\* C19: if the summary step raises, run_review still commits and returns
\* the session with every finding collected from the analyzers and the
\* summary of the session unset; no exception reaches the caller.
SummaryFailureTolerated ==
    (run.pc \in {"returned", "raised"} /\ run.summary = "raise")
        => /\ run.pc = "returned"
           /\ run.all_suggestions = SeqCollected(1)
           /\ db.sessions[run.session].summary = None
           /\ db.suggestions =
                 [k \in 1..Len(run.all_suggestions) |->
                     SeqRow(run.session, run.all_suggestions[k])]

\* run_review has returned findings of two analyzers after the summary step
\* raised
SummaryRaisedAndReturned ==
    /\ run.pc = "returned"
    /\ run.summary = "raise"
    /\ Len(run.all_suggestions) > 1
    /\ SeqReturnedFor(1) # <<>>
    /\ SeqReturnedFor(3) # <<>>
    /\ Len(db.suggestions) = Len(run.all_suggestions)

\* ------------------------------------------------------------------------
\* DependencyAgent.analyze_files and the patches it emits
\* ------------------------------------------------------------------------

\* str.strip() removes blanks and line ends from both ends
IsSpace(c) == c \in {" ", NL}

\* str.lstrip(chars)
RECURSIVE LStripChars(_, _)
LStripChars(s, chars) ==
    IF s # <<>> /\ Head(s) \in chars THEN LStripChars(Tail(s), chars) ELSE s

\* str.rstrip(chars)
RECURSIVE RStripChars(_, _)
RStripChars(s, chars) ==
    IF s # <<>> /\ s[Len(s)] \in chars
    THEN RStripChars(SubSeq(s, 1, Len(s) - 1), chars) ELSE s

\* str.strip(chars)
StripChars(s, chars) == RStripChars(LStripChars(s, chars), chars)

\* str.strip()
Strip(s) == StripChars(s, {" ", NL})

\* str.endswith
EndsWith(s, suffix) ==
    /\ Len(s) >= Len(suffix)
    /\ SubSeq(s, Len(s) - Len(suffix) + 1, Len(s)) = suffix

\* str.find(sub) + 1: the place of the first occurrence of sub in s, 0 when
\* there is none
FindSub(s, sub) ==
    LET places == {k \in 1..(Len(s) - Len(sub) + 1) :
                      SubSeq(s, k, k + Len(sub) - 1) = sub}
    IN  IF places = {} THEN 0
        ELSE CHOOSE k \in places : \A j \in places : k <= j

\* s.split(sep, 1) for a sep that occurs in s
SplitOnce(s, sep) ==
    LET k == FindSub(s, sep)
    IN  <<SubSeq(s, 1, k - 1), SubSeq(s, k + Len(sep), Len(s))>>

\* s.split(sep)
RECURSIVE SplitAll(_, _)
SplitAll(s, sep) ==
    IF FindSub(s, sep) = 0 THEN <<s>>
    ELSE <<SplitOnce(s, sep)[1]>> \o SplitAll(SplitOnce(s, sep)[2], sep)

\* sep.join(parts)
RECURSIVE JoinWith(_, _)
JoinWith(parts, sep) ==
    IF parts = <<>> THEN <<>>
    ELSE IF Len(parts) = 1 THEN Head(parts)
    ELSE Head(parts) \o sep \o JoinWith(Tail(parts), sep)

\* str.isdigit()
AllDigits(s) == s # <<>> /\ \A k \in 1..Len(s) : IsDigit(s[k])

\* the version with its last part raised by one; when int() of the last
\* part raises, the part '1' is appended instead
BumpVersion(ver) ==
    LET ver_parts == SplitAll(ver, <<".">>)
        last == ver_parts[Len(ver_parts)]
    IN  JoinWith(IF AllDigits(last)
                 THEN [ver_parts EXCEPT ![Len(ver_parts)] = DecStr(DecVal(last) + 1)]
                 ELSE Append(ver_parts, <<"1">>),
                 <<".">>)

RequirementsTxt == <<"r", "e", "q", "u", "i", "r", "e", "m", "e", "n", "t", "s", ".", "t", "x", "t">>

PyprojectToml == <<"p", "y", "p", "r", "o", "j", "e", "c", "t", ".", "t", "o", "m", "l">>

PoetryDependencies == <<"[", "t", "o", "o", "l", ".", "p", "o", "e", "t", "r", "y", ".", "d", "e", "p", "e", "n", "d", "e", "n", "c", "i", "e", "s", "]">>

\* line if line.endswith('\n') else line + '\n'
OldLine(line) == IF EndsWith(line, <<NL>>) THEN line ELSE line \o <<NL>>

\* ''.join(difflib.unified_diff([old_line], [new_line], fromfile="a/<name>",
\* tofile="b/<name>", lineterm=''))
OneLinePatch(old_line, new_line, name) ==
    CHOOSE patch \in
        {Flatten(diff) :
            diff \in {UnifiedDiff(<<old_line>>, <<new_line>>,
                                  <<"a", "/">> \o name, <<"b", "/">> \o name)}} : TRUE

\* the suggestion appended for a patch; at is the place of the line in the
\* file and new_line the line made for it
DependencySuggestion(pkg, ver, new_ver, name, patch, at, new_line) ==
    [message |-> <<"U", "p", "d", "a", "t", "e", " ">> \o pkg \o <<" ", "f", "r", "o", "m", " ">> \o ver \o <<" ", "t", "o", " ">> \o new_ver
                 \o <<" ", "i", "n", " ">> \o name \o <<".">>,
     patch |-> patch, file_path |-> name, at |-> at, new_line |-> new_line]

\* the loop over req_lines, at its i-th line
RECURSIVE RequirementsLoop(_, _, _, _)
RequirementsLoop(req_lines, i, seen_deps, suggestions) ==
    IF i > Len(req_lines) THEN suggestions
    ELSE LET line == req_lines[i]
             stripped == Strip(line)
             pkg == Strip(SplitOnce(stripped, <<"=", "=">>)[1])
             ver == Strip(SplitOnce(stripped, <<"=", "=">>)[2])
             new_ver == BumpVersion(ver)
             new_line == pkg \o <<"=", "=">> \o new_ver \o <<NL>>
             patch == OneLinePatch(OldLine(line), new_line, RequirementsTxt)
         IN  IF stripped = <<>> \/ StartsWith(stripped, <<"#">>)
             THEN RequirementsLoop(req_lines, i + 1, seen_deps, suggestions)
             ELSE IF FindSub(stripped, <<"=", "=">>) = 0
             THEN RequirementsLoop(req_lines, i + 1, seen_deps, suggestions)
             ELSE IF pkg \in seen_deps
             THEN RequirementsLoop(req_lines, i + 1, seen_deps, suggestions)
             ELSE IF ver = <<>> \/ ~IsDigit(ver[1])
             THEN RequirementsLoop(req_lines, i + 1, seen_deps \cup {pkg}, suggestions)
             ELSE RequirementsLoop(req_lines, i + 1, seen_deps \cup {pkg},
                      IF patch = <<>> THEN suggestions
                      ELSE Append(suggestions,
                               DependencySuggestion(pkg, ver, new_ver,
                                   RequirementsTxt, patch, i, new_line)))

\* s.replace('.', '')
WithoutDots(s) == LET NotDot(c) == c # "." IN SelectSeq(s, NotDot)

\* the loop over toml_lines, at its i-th line
RECURSIVE PyprojectLoop(_, _, _, _, _)
PyprojectLoop(toml_lines, i, in_deps, seen_deps, suggestions) ==
    IF i > Len(toml_lines) THEN suggestions
    ELSE LET line == toml_lines[i]
             stripped == Strip(line)
             dep_name == StripChars(Strip(SplitOnce(line, <<"=">>)[1]), {"\""})
             dep_version == StripChars(Strip(SplitOnce(line, <<"=">>)[2]), {"\""})
             new_ver == BumpVersion(dep_version)
             new_line == dep_name \o <<" ", "=", " ", "\"">> \o new_ver
                         \o <<"\"", NL>>
             patch == OneLinePatch(OldLine(line), new_line, PyprojectToml)
         IN  IF stripped = PoetryDependencies
             THEN PyprojectLoop(toml_lines, i + 1, TRUE, seen_deps, suggestions)
             ELSE IF ~in_deps
             THEN PyprojectLoop(toml_lines, i + 1, in_deps, seen_deps, suggestions)
             ELSE IF StartsWith(stripped, <<"[">>) THEN suggestions
             ELSE IF stripped = <<>> \/ StartsWith(stripped, <<"#">>)
             THEN PyprojectLoop(toml_lines, i + 1, in_deps, seen_deps, suggestions)
             ELSE IF FindSub(line, <<"=">>) = 0
             THEN PyprojectLoop(toml_lines, i + 1, in_deps, seen_deps, suggestions)
             ELSE IF dep_name \in seen_deps
             THEN PyprojectLoop(toml_lines, i + 1, in_deps, seen_deps, suggestions)
             ELSE IF dep_version = <<>> \/ ~IsDigit(dep_version[1])
             THEN PyprojectLoop(toml_lines, i + 1, in_deps,
                                seen_deps \cup {dep_name}, suggestions)
             ELSE PyprojectLoop(toml_lines, i + 1, in_deps,
                      seen_deps \cup {dep_name},
                      IF AllDigits(WithoutDots(dep_version)) /\ patch # <<>>
                      THEN Append(suggestions,
                               DependencySuggestion(dep_name, dep_version, new_ver,
                                   PyprojectToml, patch, i, new_line))
                      ELSE suggestions)

\* next((f for f in files if f['path'].endswith(name)), None): the place of
\* the first such file, 0 for None
FileNamed(given, name) ==
    LET found == {k \in DOMAIN given : EndsWith(given[k].path, name)}
    IN  IF found = {} THEN 0 ELSE CHOOSE k \in found : \A j \in found : k <= j

\* DependencyAgent.analyze_files(files, ...)
AnalyzeFiles(given) ==
    LET req_file == FileNamed(given, RequirementsTxt)
        pyproject_file == FileNamed(given, PyprojectToml)
        first == IF req_file = 0 THEN <<>>
                 ELSE RequirementsLoop(SplitLines(given[req_file].content), 1, {}, <<>>)
    IN  IF pyproject_file = 0 THEN first
        ELSE PyprojectLoop(SplitLines(given[pyproject_file].content), 1, FALSE,
                           {}, first)

\* the most lines of a dependency file
MaxDepLines == 2

\* lines of a requirements file: a pin, a pin with blanks around it and a
\* two-part version, a comment, a second pin of the first package whose
\* last version part is no number, a lower bound
RequirementLines ==
    {<<"p", "=", "=", "1">>, <<" ", "q", "=", "=", "1", ".", "9", " ">>, <<"#", "c">>, <<"p", "=", "=", "2", ".", "x">>, <<"r", ">", "=", "1">>}

\* lines of a pyproject file: the section header, a quoted pin, a bare pin,
\* another section header, a caret constraint
PyprojectLines ==
    {PoetryDependencies, <<"p", " ", "=", " ", "\"", "1", ".", "2", "\"">>, <<"q", "=", "7">>, <<"[", "x", "]">>, <<"r", " ", "=", " ", "\"", "^", "1", "\"">>}

\* the texts of at most MaxDepLines lines of a kind, every line terminated
DepTexts(kinds) ==
    UNION {{Terminated(t) : t \in [1..n -> kinds]} : n \in 0..MaxDepLines}

\* the lists of files given to analyze_files: a requirements file or none,
\* then a pyproject file or none
GivenFiles ==
    {r \o t :
        r \in {<<>>} \cup {<<[path |-> RequirementsTxt, content |-> c]>> :
                              c \in DepTexts(RequirementLines)},
        t \in {<<>>} \cup {<<[path |-> PyprojectToml, content |-> c]>> :
                              c \in DepTexts(PyprojectLines)}}

\* the content of the given file of that name, NoFile without one
GivenContent(given, name) ==
    IF FileNamed(given, name) = 0 THEN NoFile
    ELSE given[FileNamed(given, name)].content

InitDependency ==
    \E given \in GivenFiles :
        /\ files = [p \in {RequirementsTxt, PyprojectToml} |->
                       GivenContent(given, p)]
        /\ db = EmptyDb
        /\ req = [p \in Procs |-> Idle]
        /\ budget = 0
        /\ run = NoRun
        /\ doc = [kind |-> "dependency", given |-> given, analyzed |-> FALSE,
                  suggestions |-> <<>>]

\* the agent analyzes the given files
DependencyAnalyze ==
    /\ doc.kind = "dependency"
    /\ ~doc.analyzed
    /\ doc' = [doc EXCEPT !.analyzed = TRUE,
                          !.suggestions = AnalyzeFiles(doc.given)]
    /\ UNCHANGED <<files, db, req, budget, run>>

\* apply_patch_to_file is called with the patch of the k-th suggestion, in
\* the repository that holds the given files
DependencyApply(k) ==
    /\ doc.kind = "dependency"
    /\ doc.analyzed
    /\ k <= Len(doc.suggestions)
    /\ req[1].pc = "idle"
    /\ req' = [req EXCEPT ![1] = [Direct(doc.suggestions[k].patch) EXCEPT !.sid = k]]
    /\ UNCHANGED <<files, db, budget, doc, run>>

\* the write step of apply_patch_to_file is left out: no call of this
\* specification gets past the search for the target file
\* (DependencyPatchRejected)
NextDependency ==
    \/ DependencyAnalyze
    \/ \E k \in 1..(2 * MaxDepLines) : DependencyApply(k)
    \/ \E p \in Procs : EngineRead(p)

SpecDependency == InitDependency /\ [][NextDependency]_vars

\* the text with its k-th line replaced by new_line
LineReplaced(text, k, new_line) ==
    Flatten([KeepEnds(text) EXCEPT ![k] = new_line])

\* C20: every patch emitted by analyze_files has its '--- a/<path>' header,
\* its '+++ b/<path>' header and its '@@' hunk header each on a line of
\* their own, and applying it to the content it was derived from succeeds
\* and replaces exactly the line pinning the package, wherever it stands,
\* by the line with the bumped version.
DependencyPatchApplies ==
    \A p \in Procs :
        (doc.kind = "dependency" /\ req[p].op = "direct" /\ req[p].pc = "finish")
            => LET s == doc.suggestions[req[p].sid]
                   lines == SplitLines(s.patch)
               IN  /\ Len(lines) >= 3
                   /\ lines[1] = HeaderMinus \o <<"a", "/">> \o s.file_path
                   /\ lines[2] = HeaderPlusB \o s.file_path
                   /\ StartsWith(lines[3], HunkMark)
                   /\ req[p].ret = "true"
                   /\ files[s.file_path] =
                         LineReplaced(GivenContent(doc.given, s.file_path),
                                      s.at, s.new_line)

\* what the code does with every patch the agent emits: the headers share
\* the first line of the patch with the deleted line, no line starts with
\* '+++ ', and apply_patch_to_file returns False with the file untouched
DependencyPatchRejected ==
    \A p \in Procs :
        doc.kind = "dependency"
            => /\ req[p].pc # "write"
               /\ (req[p].op = "direct" /\ req[p].pc = "finish")
                     => /\ req[p].ret = "false"
                        /\ req[p].why = "no_target"
                        /\ Len(SplitLines(req[p].patch)) = 2
                        /\ files = [f \in {RequirementsTxt, PyprojectToml} |->
                                       GivenContent(doc.given, f)]

\* ------------------------------------------------------------------------
\* Zero-context diffs: the diff LintingAgent._create_patch makes with
\* difflib.unified_diff(..., n=0), applied with apply_patch_to_file
\* ------------------------------------------------------------------------

\* the context width _create_patch passes to difflib.unified_diff
ZeroContext == 0

\* the hunk header and body of every group, the header ended by lineterm
RECURSIVE GroupsTextWith(_, _, _, _)
GroupsTextWith(a, b, groups, lineterm) ==
    IF groups = <<>> THEN <<>>
    ELSE LET g == Head(groups)
             first == g[1]
             last == g[Len(g)]
         IN  << <<"@", "@", " ", "-">> \o FormatRangeUnified(first.i1, last.i2)
                \o <<" ", "+">> \o FormatRangeUnified(first.j1, last.j2)
                \o <<" ", "@", "@">> \o lineterm >>
             \o GroupBody(a, b, g)
             \o GroupsTextWith(a, b, Tail(groups), lineterm)

\* list(difflib.unified_diff(a, b, fromfile, tofile, n=n, lineterm=lineterm))
UnifiedDiffWith(a, b, fromfile, tofile, n, lineterm) ==
    CHOOSE diff \in
        {IF groups = <<>> THEN <<>>
         ELSE << <<"-", "-", "-", " ">> \o fromfile \o lineterm,
                 <<"+", "+", "+", " ">> \o tofile \o lineterm >>
              \o GroupsTextWith(a, b, groups, lineterm) :
            groups \in {GetGroupedOpcodes(a, b, n)}} : TRUE

\* _create_patch from new_lines on: the diff with no context lines and the
\* default lineterm, its lines joined with '\n'
CreatePatchDiff(content_lines, new_lines, file_path) ==
    CHOOSE patch \in
        {JoinNL(diff) :
            diff \in {UnifiedDiffWith(content_lines, new_lines,
                                      <<"a", "/">> \o file_path,
                                      <<"b", "/">> \o file_path,
                                      ZeroContext, <<NL>>)}} : TRUE

\* the most lines inserted at one place
MaxInserted == 2

\* the texts of the inserted lines: two new ones and one the file has
InsertedTexts == { <<"x">>, <<"y">>, <<"a">> }

\* lines with the lines ins put after its k-th line
InsertAfter(lines, k, ins) ==
    SubSeq(lines, 1, k) \o ins \o SubSeq(lines, k + 1, Len(lines))

InitZeroContext ==
    \E n \in 1..MaxLen :
        \E k \in 1..n, ins \in UNION {[1..m -> InsertedTexts] : m \in 1..MaxInserted} :
            \E orig \in {Terminated(SubSeq(ExampleLines, 1, n))},
               want \in {Terminated(InsertAfter(SubSeq(ExampleLines, 1, n), k, ins))} :
                /\ files = [p \in Paths |-> IF p = F THEN orig ELSE NoFile]
                /\ db = EmptyDb
                /\ req = [p \in Procs |->
                             IF p = 1
                             THEN Direct(CreatePatchDiff(KeepEnds(orig),
                                                         KeepEnds(want), F))
                             ELSE Idle]
                /\ budget = 0
                /\ run = NoRun
                /\ doc = [kind |-> "zerocontext", orig |-> orig, want |-> want,
                          k |-> k, ins |-> ins]

SpecZeroContext == InitZeroContext /\ [][NextEngine]_vars

\* C21: with context width 0, for a non-empty newline-terminated O and M
\* made from O by inserting new lines after line k, the generated diff has
\* the hunk header '@@ -k,0 ...' and, applied to O, yields M.
ZeroContextRoundTrip ==
    \A p \in Procs :
        (doc.kind = "zerocontext" /\ req[p].pc = "finish")
            => /\ \E line \in {SplitLines(req[p].patch)[5]} :
                     StartsWith(line, <<"@", "@", " ", "-">> \o DecStr(doc.k)
                                      \o <<",", "0", " ">>)
               /\ req[p].ret = "true"
               /\ files[F] = doc.want

\* what the code does when no inserted line is a line of O: the header is
\* '@@ -k,0 ...', and the inserted lines end up before line k, not after it
ZeroContextInsertsBefore ==
    \A p \in Procs :
        (/\ doc.kind = "zerocontext" /\ req[p].pc = "finish"
         /\ \A j \in 1..Len(doc.ins) : doc.ins[j] # <<"a">>)
            => /\ \E line \in {SplitLines(req[p].patch)[5]} :
                     StartsWith(line, <<"@", "@", " ", "-">> \o DecStr(doc.k)
                                      \o <<",", "0", " ">>)
               /\ req[p].ret = "true"
               /\ files[F] =
                     Terminated(InsertAfter(SplitLines(doc.orig), doc.k - 1, doc.ins))

\* ------------------------------------------------------------------------
\* More on the life of a suggestion
\* ------------------------------------------------------------------------

\* C22: reject is terminal: an apply request that finds its suggestion
\* 'rejected' neither modifies a file nor changes the status of the
\* suggestion, in any of its steps.
RejectIsTerminal ==
    [][\A p \in Procs :
          (/\ req[p].op \in ApplyOps
           /\ req[p].seen = "rejected"
           /\ req'[p] # req[p]
           /\ req'[p].no = req[p].no)
              => /\ files' = files
                 /\ db' = db]_vars

\* the diff that replaces line k of path, whose text is old, by new
ReplaceLinePatch(path, k, old, new) ==
    JoinNL(FileHeader(path)
           \o << HunkHeader(k, 1, k, 1), <<"-">> \o old, <<"+">> \o new >>)
    \o <<NL>>

\* the review left two pending suggestions for the same file: the first
\* replaces its line 1, the second its line 2
InitRace ==
    /\ files = [p \in Paths |-> IF p = F THEN Terminated(ReviewedLines) ELSE NoFile]
    /\ db = [sessions |-> <<SessionRow("repo", <<>>)>>,
             suggestions |->
                 [k \in 1..2 |->
                     SuggestionRow(1, "RefactoringAgent", "m",
                         ReplaceLinePatch(F, k, ReviewedLines[k], InsertTexts[k]),
                         F, "pending")]]
    /\ req = [p \in Procs |-> Idle]
    /\ budget = MaxRequests
    /\ run = NoRun
    /\ doc = [kind |-> "race"]

SpecRace == InitRace /\ [][NextFinding]_vars

\* C23: for two concurrent apply requests for two pending suggestions whose
\* patches replace disjoint lines of the same file, under every
\* interleaving of their steps the file finally holds both edits and both
\* suggestions end 'applied'.
RacingAppliesKeepBothEdits ==
    (/\ doc.kind = "race"
     /\ \A p \in Procs : req[p].pc \in {"idle", "done"}
     /\ \E p, q \in Procs :
           /\ req[p].op \in ApplyOps /\ req[p].sid = 1 /\ req[p].seen = "pending"
           /\ req[q].op \in ApplyOps /\ req[q].sid = 2 /\ req[q].seen = "pending")
        => /\ \A s \in 1..2 : db.suggestions[s].status = "applied"
           /\ files[F] = Terminated(InsertTexts)

\* what holds: both requests answer 'applied' and both suggestions end
\* 'applied', and the file holds the edit of at least one of them
RacingAppliesBothAnswer ==
    (/\ doc.kind = "race"
     /\ \A p \in Procs : req[p].pc \in {"idle", "done"}
     /\ \E p, q \in Procs :
           /\ req[p].op \in ApplyOps /\ req[p].sid = 1 /\ req[p].seen = "pending"
           /\ req[q].op \in ApplyOps /\ req[q].sid = 2 /\ req[q].seen = "pending")
        => /\ \A s \in 1..2 : db.suggestions[s].status = "applied"
           /\ \A p \in Procs : req[p].answer = "applied"
           /\ files[F] \in {Terminated(InsertTexts),
                            Terminated(<<InsertTexts[1], ReviewedLines[2]>>),
                            Terminated(<<ReviewedLines[1], InsertTexts[2]>>)}

\* ------------------------------------------------------------------------
\* The /apply-patch endpoint of multi_agent_framework_v2: the file is
\* fetched from GitHub, patched in a temporary directory and sent back with
\* GitHubAPI.update_file; files holds the files of the branch
\* ------------------------------------------------------------------------

\* session.repo_path: 'owner/repo', or a path of another shape
RepoPaths == { <<"o", "/", "r">>, <<"r">> }

\* apply_patch_to_file(suggestion.patch, temp_dir) in a directory that
\* holds only suggestion.file_path with the fetched content, and the
\* content read back after it
TempApply(patch, file_path, file_content) ==
    LET lines == SplitLines(patch)
        target_file == TargetFile(lines)
    IN  IF lines = <<>> \/ target_file = None \/ target_file # file_path
        THEN [success |-> FALSE, patched_content |-> <<>>]
        ELSE [success |-> TRUE,
              patched_content |-> Flatten(Replay(lines, KeepEnds(file_content)))]

\* how a call of update_file may go: the GET of the file gives 404, another
\* status that is not 200, a body without 'sha', or raises; the PUT gives a
\* status that is neither 200 nor 201, or raises; or the PUT succeeds
UpdateOutcomes ==
    {"get_404", "get_status", "get_no_sha", "get_raises", "put_status",
     "put_raises", "put_ok"}

\* GitHubAPI.update_file: True only when the PUT succeeded
UpdateFile(outcome) == outcome = "put_ok"

\* what the caller of the endpoint gets: the two statuses, and a 500 for
\* everything the handler raises, its own 404 and 400 included
RemoteAnswered(r, outcome) ==
    [Answered(r, outcome) EXCEPT
        !.answer = IF outcome \in {"applied", "already applied"} THEN outcome
                   ELSE "500"]

InitRemote ==
    \E patch \in SuggestedPatches, repo_path \in RepoPaths :
        /\ files = [p \in Paths |-> IF p = F THEN Terminated(ReviewedLines) ELSE NoFile]
        /\ db = [sessions |-> <<SessionRow(repo_path, <<>>)>>,
                 suggestions |->
                     <<SuggestionRow(1, "LintingAgent", "m", patch,
                                     TargetFile(SplitLines(patch)), "pending")>>]
        /\ req = [p \in Procs |-> Idle]
        /\ budget = MaxRequests
        /\ run = NoRun
        /\ doc = [kind |-> "remote", updated |-> [p \in Procs |-> "none"]]

\* from the query for the suggestion to the call of get_file_content
RemoteLoad(p) ==
    /\ doc.kind = "remote"
    /\ req[p].pc \in {"idle", "done"}
    /\ budget > 0
    /\ budget' = budget - 1
    /\ doc' = [doc EXCEPT !.updated[p] = "none"]
    /\ \E suggestion_id \in RequestIds :
        LET r == [Idle EXCEPT !.op = "v2_apply", !.sid = suggestion_id, !.no = budget]
        IN  req' = [req EXCEPT ![p] =
                IF suggestion_id \notin DOMAIN db.suggestions
                THEN RemoteAnswered(r, "not found")
                ELSE LET suggestion == db.suggestions[suggestion_id]
                         seen == [r EXCEPT !.seen = suggestion.status]
                     IN  IF suggestion.patch = <<>>
                         THEN RemoteAnswered(seen, "no patch")
                         ELSE IF suggestion.status = "applied"
                         THEN RemoteAnswered(seen, "already applied")
                         ELSE IF suggestion.session_id \notin DOMAIN db.sessions
                         THEN RemoteAnswered(seen, "session not found")
                         ELSE IF Len(SplitAll(db.sessions[suggestion.session_id].repo_path,
                                              <<"/">>)) # 2
                         THEN RemoteAnswered(seen, "invalid repository path")
                         ELSE [seen EXCEPT !.pc = "fetch",
                                           !.patch = suggestion.patch,
                                           !.file_path = suggestion.file_path]]
    /\ UNCHANGED <<files, db, run>>

\* get_file_content has answered, with the content or with None; the patch
\* is applied in the temporary directory and update_file is called
RemoteFetched(p) ==
    /\ doc.kind = "remote"
    /\ req[p].pc = "fetch"
    /\ \E answered \in BOOLEAN :
        \E file_content \in {IF answered /\ FileAt(files, req[p].file_path) # NoFile
                             THEN files[req[p].file_path] ELSE <<>>} :
            \E t \in {TempApply(req[p].patch, req[p].file_path, file_content)} :
                req' = [req EXCEPT ![p] =
                    IF file_content = <<>> THEN RemoteAnswered(@, "file not found")
                    ELSE IF ~t.success
                    THEN RemoteAnswered([@ EXCEPT !.calls = 1, !.ret = "false"], "failed")
                    ELSE [@ EXCEPT !.pc = "update", !.calls = 1, !.ret = "true",
                                   !.original_lines = KeepEnds(file_content),
                                   !.new_lines = KeepEnds(t.patched_content)]]
    /\ UNCHANGED <<files, db, budget, doc, run>>

\* update_file has returned: its result is dropped, the status is set to
\* 'applied' and committed, and the request answers 'applied'
RemoteUpdated(p) ==
    /\ doc.kind = "remote"
    /\ req[p].pc = "update"
    /\ \E outcome \in UpdateOutcomes :
        /\ files' = IF UpdateFile(outcome)
                    THEN [files EXCEPT ![req[p].file_path] = Flatten(req[p].new_lines)]
                    ELSE files
        /\ doc' = [doc EXCEPT !.updated[p] =
                       IF UpdateFile(outcome) THEN "true" ELSE "false"]
    /\ db' = [db EXCEPT !.suggestions[req[p].sid].status = "applied"]
    /\ req' = [req EXCEPT ![p] = RemoteAnswered(@, "applied")]
    /\ UNCHANGED <<budget, run>>

NextRemote ==
    \/ \E p \in Procs : RemoteLoad(p)
    \/ \E p \in Procs : RemoteFetched(p)
    \/ \E p \in Procs : RemoteUpdated(p)

SpecRemote == InitRemote /\ [][NextRemote]_vars

\* C24: when update_file returns False, the status of the suggestion stays
\* as it was and the request does not answer 'applied'.
UpdateFailureKeepsPending ==
    [][\A p \in Procs :
          (/\ doc.kind = "remote"
           /\ req[p].pc = "update"
           /\ req'[p].pc = "done"
           /\ doc'.updated[p] = "false")
              => /\ db' = db
                 /\ req'[p].answer # "applied"]_vars

\* what holds: a request answers 'applied' only after update_file has
\* returned, whatever it returned, and a failed update_file leaves the
\* files of the branch as they were
UpdateFailureKeepsFiles ==
    [][\A p \in Procs :
          (/\ doc.kind = "remote"
           /\ req[p].pc = "update"
           /\ req'[p].pc = "done"
           /\ doc'.updated[p] = "false")
              => files' = files]_vars

\* the apply requests for suggestion s whose call of apply_patch_to_file
\* has rewritten the file
Replayed(s) ==
    {p \in Procs : req[p].op \in ApplyOps /\ req[p].sid = s /\ req[p].ret = "true"}

\* C25: for concurrent apply requests for the same pending suggestion,
\* under every interleaving of their status check, patch application and
\* status commit, the patch is replayed onto the file at most once and at
\* most one request answers 'applied'.
AppliedAtMostOnce ==
    doc.kind = "finding"
        => \A s \in DOMAIN db.suggestions :
              /\ Cardinality(Replayed(s)) <= 1
              /\ Cardinality({p \in Replayed(s) : req[p].answer = "applied"}) <= 1

\* what holds: a request that finds the status 'applied' when it looks
\* does not replay the patch
AppliedSeenIsNotReplayed ==
    doc.kind = "finding"
        => \A p \in Procs :
              (req[p].op \in ApplyOps /\ req[p].seen = "applied") => req[p].calls = 0


\* ------------------------------------------------------------------------
\* The cursor of the replay: one call of apply_patch_to_file for a diff
\* whose hunks stand in any order and may overlap
\* ------------------------------------------------------------------------

\* the most lines of the file the hunks are laid over
MaxCursorLines == 2

\* the most body lines of such a diff, over all its hunks
MaxCursorOps == 2

\* the hunk lists of at most hunksLeft hunks and opsLeft body lines over a
\* file of n lines: every hunk starts anywhere from line 1 to line n + 1,
\* whatever the hunks before it cover
RECURSIVE AnyHunks(_, _, _)
AnyHunks(n, opsLeft, hunksLeft) ==
    {<<>>} \cup
    (IF hunksLeft = 0 \/ opsLeft = 0 THEN {}
     ELSE UNION {
            {<<[start |-> h[1], tags |-> h[2]]>> \o rest :
                rest \in AnyHunks(n, opsLeft - Len(h[2]), hunksLeft - 1)} :
            h \in (1..(n + 1)) \X TagSeqs(opsLeft)})

\* the diff text of such hunks against the file path: every header names
\* its source start as its target start too
RECURSIVE AnyHunksText(_, _, _)
AnyHunksText(hunks, texts, k) ==
    IF k > Len(hunks) THEN <<>>
    ELSE LET h == hunks[k]
         IN  <<HunkHeader(h.start, Consumed(h.tags), h.start, Emitted(h.tags))>>
             \o BodyLines(h.tags, texts, h.start - 1, k)
             \o AnyHunksText(hunks, texts, k + 1)

AnyDiffText(path, hunks, texts) ==
    JoinNL(FileHeader(path) \o AnyHunksText(hunks, texts, 1)) \o <<NL>>

CursorTexts == SubSeq(ExampleLines, 1, Min(MaxCursorLines, Len(ExampleLines)))

InitCursor ==
    \E hunks \in AnyHunks(Len(CursorTexts), MaxCursorOps, MaxHunks) :
        /\ files = [p \in Paths |-> IF p = F THEN Terminated(CursorTexts) ELSE NoFile]
        /\ db = EmptyDb
        /\ req = [p \in Procs |->
                     IF p = 1 THEN Direct(AnyDiffText(F, hunks, CursorTexts))
                     ELSE Idle]
        /\ budget = 0
        /\ run = NoRun
        /\ doc = [kind |-> "cursor", hunks |-> hunks]

SpecCursor == InitCursor /\ [][NextEngine]_vars

\* pointer when the first j lines of the diff have been gone through
CursorAfter(lines, original_lines, j) ==
    ReplayLoop(SubSeq(lines, 1, j), original_lines, 1,
               [pointer |-> 0, new_lines |-> <<>>]).pointer

\* the 0-based lines of the original copied untouched while line j of the
\* diff is gone through (a hunk header copies from pointer up to its
\* start); j = Len(lines) + 1 stands for the copy after the last hunk
CopiedAt(lines, original_lines, j) ==
    IF j = Len(lines) + 1
    THEN CursorAfter(lines, original_lines, Len(lines))..(Len(original_lines) - 1)
    ELSE IF StartsWith(lines[j], HunkMark)
    THEN CursorAfter(lines, original_lines, j - 1)
             ..(Min(CursorAfter(lines, original_lines, j), Len(original_lines)) - 1)
    ELSE {}

\* a hunk header of the diff names a start behind pointer
StartsBehind(lines, original_lines) ==
    \E j \in 1..Len(lines) :
        /\ StartsWith(lines[j], HunkMark)
        /\ OrigStart(lines[j]) - 1 < CursorAfter(lines, original_lines, j - 1)

CursorReplayed(r) == r.op = "direct" /\ r.pc \in {"write", "finish"} /\ r.why = "none"

\* C26: whatever the order of the hunks of the diff, pointer never decreases
\* from one line of the diff to the next during apply_patch_to_file, and
\* every line of the original is copied untouched at most once (by the copy
\* before one hunk or by the copy after the last hunk)
CursorNeverDecreases ==
    \A p \in Procs :
        CursorReplayed(req[p]) =>
            LET lines == SplitLines(req[p].patch)
                o == req[p].original_lines
            IN  /\ \A j \in 1..Len(lines) :
                       CursorAfter(lines, o, j - 1) <= CursorAfter(lines, o, j)
                /\ req[p].pointer = CursorAfter(lines, o, Len(lines))
                /\ \A k \in 0..(Len(o) - 1) :
                       Cardinality({j \in 1..(Len(lines) + 1) :
                                       k \in CopiedAt(lines, o, j)}) <= 1

\* C26, its case: the file has been rewritten from a diff one of whose
\* hunks starts behind pointer
CursorOverlapApplied ==
    \E p \in Procs :
        /\ CursorReplayed(req[p]) /\ req[p].pc = "finish" /\ req[p].ret = "true"
        /\ StartsBehind(SplitLines(req[p].patch), req[p].original_lines)


\* ------------------------------------------------------------------------
\* /ws/architect: the websockets of ConnectionManager (v2 main.py)
\* ------------------------------------------------------------------------

\* how many websockets ever connect
MaxSockets == 3

\* how many replies one websocket is sent at most
MaxReplies == 1

Sockets == 1..MaxSockets

\* data.get('type') of a message
MessageTypes == {"init", "query", "other"}

\* how handle_message ends for a message of a type that has a branch:
\* send_json(result) went through, analyze_structure or send_json raised,
\* or send_json raised WebSocketDisconnect
HandleFaults == {"none", "error", "gone"}

\* list.remove(x): the list without the first x
RECURSIVE ListRemove(_, _)
ListRemove(list, x) ==
    IF list = <<>> THEN <<>>
    ELSE IF Head(list) = x THEN Tail(list)
    ELSE <<Head(list)>> \o ListRemove(Tail(list), x)

\* how often x stands in list
RECURSIVE ListCount(_, _)
ListCount(list, x) ==
    IF list = <<>> THEN 0
    ELSE (IF Head(list) = x THEN 1 ELSE 0) + ListCount(Tail(list), x)

\* handle_message: a type other than 'init' and 'query' takes neither
\* branch, result is unbound at send_json(result) and the handler raises
\* UnboundLocalError
HandleMessage(type, fault) ==
    IF type \notin {"init", "query"} THEN "raise"
    ELSE IF fault = "none" THEN "sent"
    ELSE IF fault = "gone" THEN "disconnect"
    ELSE "raise"

NewSocket == [pc |-> "new", type |-> "none", replies |-> 0]

InitSockets ==
    /\ files = [p \in Paths |-> NoFile]
    /\ db = EmptyDb
    /\ req = [p \in Procs |-> Idle]
    /\ budget = 0
    /\ doc = [kind |-> "sockets"]
    /\ run = [pc |-> "sockets", active_connections |-> <<>>,
              conn |-> [s \in Sockets |-> NewSocket]]

\* manager.connect: accept(), then append
WsConnect(s) ==
    /\ run.pc = "sockets"
    /\ run.conn[s].pc = "new"
    /\ run' = [run EXCEPT !.active_connections = Append(@, s),
                          !.conn[s].pc = "receive"]
    /\ UNCHANGED <<files, db, req, budget, doc>>

\* receive_json returns a message and handle_message starts
WsReceive(s) ==
    /\ run.pc = "sockets"
    /\ run.conn[s].pc = "receive"
    /\ run.conn[s].replies < MaxReplies
    /\ \E type \in MessageTypes :
           run' = [run EXCEPT !.conn[s].pc = "handle", !.conn[s].type = type]
    /\ UNCHANGED <<files, db, req, budget, doc>>

\* except WebSocketDisconnect: manager.disconnect(websocket)
WsDisconnected(r, s) ==
    [r EXCEPT !.active_connections = ListRemove(@, s),
              !.conn[s].pc = "disconnected"]

\* except Exception: the error is logged and websocket.close() awaited
WsClosed(r, s) ==
    [r EXCEPT !.conn[s].pc = "closed"]

\* handle_message ends and the endpoint goes on: the next receive_json, or
\* one of the two except branches
WsHandle(s) ==
    /\ run.pc = "sockets"
    /\ run.conn[s].pc = "handle"
    /\ \E fault \in HandleFaults :
        \E outcome \in {HandleMessage(run.conn[s].type, fault)} :
           run' = IF outcome = "sent"
                  THEN [run EXCEPT !.conn[s].pc = "receive",
                                   !.conn[s].replies = @ + 1]
                  ELSE IF outcome = "disconnect" THEN WsDisconnected(run, s)
                  ELSE WsClosed(run, s)
    /\ UNCHANGED <<files, db, req, budget, doc>>

\* receive_json raises WebSocketDisconnect: the client has gone
WsClientDisconnect(s) ==
    /\ run.pc = "sockets"
    /\ run.conn[s].pc = "receive"
    /\ run' = WsDisconnected(run, s)
    /\ UNCHANGED <<files, db, req, budget, doc>>

\* receive_json raises another exception (the frame is no JSON)
WsReceiveError(s) ==
    /\ run.pc = "sockets"
    /\ run.conn[s].pc = "receive"
    /\ run' = WsClosed(run, s)
    /\ UNCHANGED <<files, db, req, budget, doc>>

NextSockets ==
    \/ \E s \in Sockets : WsConnect(s)
    \/ \E s \in Sockets : WsReceive(s)
    \/ \E s \in Sockets : WsHandle(s)
    \/ \E s \in Sockets : WsClientDisconnect(s)
    \/ \E s \in Sockets : WsReceiveError(s)

SpecSockets == InitSockets /\ [][NextSockets]_vars

\* C27: active_connections holds exactly the websockets that were accepted
\* and have neither disconnected nor been closed by the endpoint, each once
ActiveConnectionsExact ==
    run.pc = "sockets" =>
        \A s \in Sockets :
            ListCount(run.active_connections, s) =
                IF run.conn[s].pc \in {"receive", "handle"} THEN 1 ELSE 0

\* what does hold: a websocket is in the list once from its accept on, and
\* not at all before it or after the client has disconnected
DisconnectedLeaveTheList ==
    run.pc = "sockets" =>
        \A s \in Sockets :
            ListCount(run.active_connections, s) =
                IF run.conn[s].pc \in {"new", "disconnected"} THEN 0 ELSE 1


\* ------------------------------------------------------------------------
\* GitHubAPI._make_request (v2 services/github.py): the retry loop
\* ------------------------------------------------------------------------

\* for attempt in range(3)
MaxAttempts == 3

\* what one pass through the try block meets: a 200 response with a JSON
\* or another content type, a 403 whose text holds 'rate limit exceeded',
\* a 429, any other response (a 403 without that text among them), or an
\* exception raised inside the try (by the session, the request or the
\* reading of the response)
AttemptOutcomes == {"200_json", "200_text", "403_rate_limit", "429", "other", "exception"}

\* AfterAttempt with the test of attempt == 2 missing: the first exception
\* is raised again at once
AfterAttempt_RaiseAtOnce(attempt, outcome) ==
    IF outcome = "403_rate_limit" THEN "wait"
    ELSE IF outcome = "200_json" THEN "return_json"
    ELSE IF outcome = "200_text" THEN "return_text"
    ELSE IF outcome = "exception" THEN "raise"
    ELSE IF outcome # "429" THEN "return_none"
    ELSE "backoff"

\* where one pass of the loop body leads, attempt counted from 0
AfterAttempt(attempt, outcome) ==
    IF outcome = "403_rate_limit" THEN "wait"
    ELSE IF outcome = "200_json" THEN "return_json"
    ELSE IF outcome = "200_text" THEN "return_text"
    ELSE IF outcome = "exception"
    THEN (IF attempt = MaxAttempts - 1 THEN "raise" ELSE "backoff")
    ELSE IF outcome # "429" THEN "return_none"
    ELSE "backoff"

InitRetry ==
    /\ files = [p \in Paths |-> NoFile]
    /\ db = EmptyDb
    /\ req = [p \in Procs |-> Idle]
    /\ budget = 0
    /\ doc = [kind |-> "retry"]
    /\ run = [pc |-> "try", attempt |-> 0, requests |-> 0, met |-> <<>>,
              result |-> "none"]

\* the next value of the for loop, or the return None after it
NextAttempt(r) ==
    IF r.attempt + 1 < MaxAttempts
    THEN [r EXCEPT !.pc = "try", !.attempt = @ + 1]
    ELSE [r EXCEPT !.pc = "returned", !.result = "None"]

\* one pass through the try block: the request is issued and answered
RetryAttempt ==
    /\ run.pc = "try"
    /\ \E outcome \in AttemptOutcomes :
        \E after \in {AfterAttempt(run.attempt, outcome)} :
           run' = [run EXCEPT
                     !.requests = @ + 1,
                     !.met = Append(@, outcome),
                     !.pc = IF after \in {"wait", "backoff"} THEN after
                            ELSE IF after = "raise" THEN "raised"
                            ELSE "returned",
                     !.result = IF after = "return_json" THEN "json"
                                ELSE IF after = "return_text" THEN "text"
                                ELSE IF after = "return_none" THEN "None"
                                ELSE IF after = "raise" THEN "exception"
                                ELSE "none"]
    /\ UNCHANGED <<files, db, req, budget, doc>>

\* asyncio.sleep(wait_time) is over: continue
RetryWaited ==
    /\ run.pc = "wait"
    /\ run' = NextAttempt(run)
    /\ UNCHANGED <<files, db, req, budget, doc>>

\* asyncio.sleep(self.retry_delay * (2 ** attempt)) is over
RetryBackedOff ==
    /\ run.pc = "backoff"
    /\ run' = NextAttempt(run)
    /\ UNCHANGED <<files, db, req, budget, doc>>

NextRetry ==
    \/ RetryAttempt
    \/ RetryWaited
    \/ RetryBackedOff

SpecRetry == InitRetry /\ [][NextRetry]_vars /\ WF_vars(NextRetry)

RetryOver == run.pc \in {"returned", "raised"}

RateLimited(outcome) == outcome \in {"403_rate_limit", "429"}

\* what a finished call has to have done, given what its attempts met
RetryBounded ==
    run.pc \in {"try", "wait", "backoff", "returned", "raised"} =>
        LET n == Len(run.met)
        IN  /\ run.requests = n /\ n <= MaxAttempts
            /\ \A k \in 1..(n - 1) : run.met[k] \in {"403_rate_limit", "429", "exception"}
            /\ RetryOver =>
                /\ n >= 1
                /\ run.met[n] = "200_json" <=> run.result = "json"
                /\ run.met[n] = "200_text" <=> run.result = "text"
                /\ run.met[n] = "other" => run.result = "None"
                /\ RateLimited(run.met[n]) => n = MaxAttempts /\ run.result = "None"
                /\ run.result = "exception" <=>
                       (n = MaxAttempts /\ run.met[n] = "exception")
                /\ run.pc = "raised" <=> run.result = "exception"

\* C28: every call of _make_request issues at most 3 requests and ends; it
\* returns the body at the first 200, None at once at a response that is
\* neither 200 nor 429 nor a rate-limit 403, None after the third 429 or
\* rate-limit 403, and raises only for an exception of the third attempt
MakeRequestBounded ==
    /\ [](doc.kind = "retry" => RetryBounded)
    /\ <>(doc.kind = "retry" => RetryOver)

\* C28, its case: a call has ended at its third attempt after two attempts
\* that were retried
ThirdAttemptEnded ==
    /\ doc.kind = "retry" /\ RetryOver
    /\ Len(run.met) = MaxAttempts
    /\ \E k \in 1..2 : run.met[k] = "exception"
    /\ run.result \in {"None", "exception"}


\* ------------------------------------------------------------------------
\* A failed apply (SpecFinding)
\* ------------------------------------------------------------------------

\* an apply request whose call of apply_patch_to_file has returned False
ApplyFailed(r) == r.op \in ApplyOps /\ r.pc = "finish" /\ r.ret = "false"

\* C29: when apply_patch_to_file has returned False in an apply request,
\* the step that ends the request commits nothing (the status of the
\* suggestion stays as it was) and answers with a failure, not 'applied'
FailedApplyChangesNothing ==
    [][\A p \in Procs :
          (ApplyFailed(req[p]) /\ req'[p] # req[p])
              => /\ db' = db
                 /\ req'[p].pc = "done"
                 /\ req'[p].answer = Answer(req[p].op, "failed")
                 /\ req'[p].answer # Answer(req[p].op, "applied")]_vars

\* C29, its case: an apply request has been answered after its call of
\* apply_patch_to_file returned False, the suggestion still pending
FailedApplyAnswered ==
    \E p \in Procs :
        /\ req[p].op \in ApplyOps /\ req[p].pc = "done" /\ req[p].ret = "false"
        /\ req[p].calls = 1
        /\ db.suggestions[req[p].sid].status = "pending"


\* ------------------------------------------------------------------------
\* The summary of the sequential run_review over a non-empty list
\* (SpecSequential)
\* ------------------------------------------------------------------------

\* the loop over self.agents is over and the summary step is next
SummaryReady == run.pc = "agents" /\ run.next > Len(SeqAgents)

\* C30: when the analyzers emitted at least one finding and nothing from
\* outside fails, the summary step over all_suggestions, as run_review has
\* built it, completes and sets a summary text on the session
SummarySetForFindings ==
    (SummaryReady /\ run.all_suggestions # <<>>) =>
        LET step == SummaryStep(run.all_suggestions, FALSE)
        IN  ~step.escapes /\ step.set /\ step.summary # None

\* what does hold: over the empty list the step sets the fixed text
SummarySetForNoFindings ==
    (SummaryReady /\ run.all_suggestions = <<>>) =>
        LET step == SummaryStep(run.all_suggestions, FALSE)
        IN  ~step.escapes /\ step.set /\ step.summary = NoIssuesText

\* and run_review never returns a session with a summary next to findings
SummaryUnsetForFindings ==
    (run.pc = "returned" /\ run.all_suggestions # <<>>) =>
        /\ run.summary = "raise"
        /\ db.sessions[run.session].summary = None

====
